---- MODULE Spec2Model ----
(***************************************************************************)
(* A model of siren's event loop: Loop::run, the Loop I/O operations that  *)
(* wait through Loop::waitForFile, the I/O clock and the fiber scheduler.  *)
(* One OS thread runs the loop and every fiber, so at most one fiber is    *)
(* running; a fiber's operation is cut at its system calls (whose outcome  *)
(* the kernel chooses) and at its suspension points.                       *)
(***************************************************************************)
EXTENDS Integers, Sequences, FiniteSets, TLC

\* ------------------------------------------------------------------ bounds

\* The clock is not advanced beyond MaxNow (ms since the clock started).
MaxNow == 2
\* bufferSize of the recv/recvfrom calls the fibers make.
BufSize == 2

\* ------------------------------------------------------------------ domains

None == "none"

\* f1 and f2 are foreground fibers, b1 is a background fiber (such as the
\* parked trigger fiber of Async).
FgFibers == {"f1", "f2"}
BgFibers == {"b1"}
Fibers == FgFibers \cup BgFibers

\* The tasks given to the thread pool, its worker threads, and the sentinel
\* ThreadPool::noTask_ that ends the workers.
Tasks == {"t1", "t2", "t3"}
Workers == {"w1", "w2"}
NoTask == "noTask"

\* File descriptors of the process: 3 is a socket and 4 the read end of a
\* pipe, both registered with the loop before Loop::run; 5 is the descriptor
\* the kernel hands out next (to ::open or ::accept4) while it is unused.
FDs == {3, 4, 5}
RegisteredAtStart == {3, 4}
\* The invalid descriptor.
NoFD == -1

\* Stored timeouts (ms): -1 is "wait indefinitely", 0 is "do not wait".
Timeouts == {-1, 0, 2}

ReadFileOps == {"read", "readv", "recv", "recvfrom"}
WriteFileOps == {"write", "writev", "send", "sendto"}
MsgOps == {"recv", "recvfrom", "send", "sendto"}
RecvOps == {"recv", "recvfrom"}
ReadSideOps == ReadFileOps \cup {"accept4"}
WriteSideOps == WriteFileOps \cup {"connect"}
WaitOps == ReadSideOps \cup WriteSideOps
IOOps == WaitOps \cup {"open", "close"}

\* Mutant: only the read/write family checks the descriptor.
CheckedOps_WaitOnly == WaitOps

\* The operations that begin with LOOP_CHECK_FD(fd).  fcntl_getfl and
\* fcntl_setfl are Loop::fcntl with the two commands the loop interprets;
\* getsockopt / setsockopt stand for the calls with level SOL_SOCKET, the
\* option (SO_RCVTIMEO or SO_SNDTIMEO) being their flag.
CheckedOps == WaitOps \cup {"close", "fcntl_getfl", "fcntl_setfl", "getsockopt",
                            "setsockopt"}
\* The status flags F_SETFL can change (of those the model follows).
SettableFlags == {"O_NONBLOCK", "O_APPEND"}

MsgFlags == {"MSG_DONTWAIT", "MSG_WAITALL"}

\* The operations each fiber's procedure may call: f1 exercises the whole
\* API, f2 only computes (it yields, resumes others and ends), and b1 reads
\* a pipe, parked like the trigger fiber of Async.
OpsOf(f) ==
    IF f = "f1" THEN IOOps
    ELSE IF f = "f2" THEN {}
    ELSE {"read"}

\* The descriptors each fiber's procedure passes to op.
FdsOf(f, op) ==
    IF f = "f1"
    THEN (IF op = "open" THEN {NoFD}
          ELSE IF op = "close" THEN {5}
          ELSE IF op = "read" THEN {3, 5}
          ELSE {3})
    ELSE IF f = "b1" THEN {3, 4}
    ELSE {}

\* The options descriptor 3 (a socket) may have when Loop::run is entered:
\* <<blocking, readTimeout, writeTimeout>>.
InitialSocketOptions ==
    {<<TRUE, -1, 2>>, <<TRUE, 2, 0>>, <<TRUE, 0, -1>>, <<FALSE, 2, -1>>, <<FALSE, -1, 2>>}

\* The flag words a fiber passes to op.
FlagsOf(op) ==
    IF op \in RecvOps THEN SUBSET MsgFlags
    ELSE IF op \in MsgOps THEN SUBSET {"MSG_DONTWAIT"}
    ELSE IF op = "open" THEN SUBSET {"O_NONBLOCK", "mode_O_NONBLOCK"}
    ELSE IF op = "accept4" THEN SUBSET {"SOCK_NONBLOCK"}
    ELSE {{}}

\* errno values that matter to the loop; EIO stands for any other failure of
\* a system call and ECONNREFUSED for any pending socket error (SO_ERROR).
NoError == "0"
Errnos == {"EAGAIN", "EINTR", "EINPROGRESS", "EBADF", "EIO", "ECONNREFUSED"}

VARIABLES
    loopPc,     \* where Loop::run is: "sched", "timers", "returned"
    current,    \* Scheduler: the running fiber, or None
    fgQueue,    \* Scheduler: runnable foreground fibers, FIFO
    bgQueue,    \* Scheduler: runnable background fibers, FIFO
    fstate,     \* Fiber state: "runnable", "running", "suspended", "terminated"
    fgCount,    \* Scheduler: number of foreground fibers alive
    ctx,        \* IOPoller: per-fd context tag (FileOptions), or None
    watchers,   \* IOPoller: the registered watchers
    timerHeap,  \* IOClock: the timers in the heap
    now,        \* IOClock::now_
    frame,      \* per fiber: the activation of the Loop operation it is in
    hist,       \* per fiber: what happened during the operation (history)
    kernel,     \* the kernel's open file descriptions: flags, socket timeouts
    atRegister, \* per fd: the kernel's state when registerFD adopted it (history)
    clock,      \* the steady clock (ms); now lags it by what IOClock has not seen
    pending,    \* ThreadPool::pendingTaskList_, FIFO
    completed,  \* ThreadPool::completedTaskList_, FIFO
    task,       \* per task: state_, and what happened to it (history)
    worker,     \* per worker thread: where it is in ThreadPool::worker, its task
    eventfd,    \* the counter of ThreadPool::eventFD_, and the total written (history)
    async,      \* Async: taskCount_, the trigger fiber, the submitters
    tcp         \* the TCPSocket objects, and the calls of Loop::close they made (history)

vars == <<loopPc, current, fgQueue, bgQueue, fstate, fgCount, ctx, watchers,
          timerHeap, now, frame, hist, kernel, atRegister, clock, pending,
          completed, task, worker, eventfd, async, tcp>>

kernelVars == <<kernel, atRegister>>
loopVars == <<loopPc, current, fgQueue, bgQueue, fstate, fgCount, ctx, watchers,
              timerHeap, now, frame, hist, kernel, atRegister, clock>>
poolVars == <<pending, completed, task, worker, eventfd, async>>

schedVars == <<current, fgQueue, bgQueue, fstate, fgCount>>
ioVars == <<watchers, timerHeap>>

\* ------------------------------------------------------------------ records

\* FileOptions (the poller's per-fd context tag), and the tag of a descriptor
\* that has no context.
FileOptions(isSocket, blocking, readTimeout, writeTimeout) ==
    [exists |-> TRUE, isSocket |-> isSocket, blocking |-> blocking,
     readTimeout |-> readTimeout, writeTimeout |-> writeTimeout]

NoContext ==
    [exists |-> FALSE, isSocket |-> FALSE, blocking |-> FALSE,
     readTimeout |-> -1, writeTimeout |-> -1]

\* A timeval, <<tv_sec, tv_usec>>; the zero timeval.
ZeroTime == <<0, 0>>

\* An open file description of the kernel: its status flags (F_GETFL) and,
\* for a socket, SO_RCVTIMEO and SO_SNDTIMEO; and a descriptor that is not
\* open.
KernelFile(isSocket, flags, rcvtimeo, sndtimeo) ==
    [open |-> TRUE, isSocket |-> isSocket, flags |-> flags,
     rcvtimeo |-> rcvtimeo, sndtimeo |-> sndtimeo]

KernelClosed ==
    [open |-> FALSE, isSocket |-> FALSE, flags |-> {},
     rcvtimeo |-> ZeroTime, sndtimeo |-> ZeroTime]

\* The activation of a Loop operation on a fiber's stack: the arguments, the
\* timeout computed on entry, recv's byteCount, waitForFile's
\* context.isTimedOut, and the value returned with the errno its caller then
\* reads (both read at pc = "ret").  arg is the timeval passed to setsockopt
\* or <<nfds, timeout>> of poll; outTime and outFlags are what the operation
\* stores for its caller: getsockopt's timeval, the flag word F_GETFL
\* returns, poll's revents.
NoFrame ==
    [op |-> None, fd |-> NoFD, flags |-> {}, pc |-> "idle", timeout |-> 0,
     wtimeout |-> 0, byteCount |-> 0, isTimedOut |-> FALSE, ret |-> 0,
     errno |-> NoError, arg |-> ZeroTime, outTime |-> ZeroTime, outFlags |-> {},
     ready |-> {}]

\* What happened during the operation, kept for the properties only:
\*   called: waitForFile was called; waited: it suspended the fiber;
\*   armed: what the last waitForFile armed; gotReady: its watcher callback ran;
\*   resumeCalls: calls of Scheduler::resumeFiber for the last suspension;
\*   timerRemovals: times its timer left the heap; sawEINTR: a system call of
\*   the operation failed with EINTR; retried: a system call was issued after
\*   a wait that timed out; lastErr: the errno of the operation's last system
\*   call (NoError: it succeeded, or none was issued); unwound: what the
\*   scope guards of the operation did, in order, when it threw.
NoHist ==
    [called |-> FALSE, waited |-> FALSE, armed |-> "none", gotReady |-> FALSE,
     resumeCalls |-> 0, timerRemovals |-> 0, sawEINTR |-> FALSE,
     retried |-> FALSE, lastErr |-> NoError, unwound |-> <<>>]

ContextExists(fd) == ctx[fd].exists

\* The thread pool and the Async bridge after construction: the lists are
\* empty, the workers are at the top of ThreadPool::worker, the eventfd
\* counter is 0 (eventfd(0, 0)), taskCount_ is 0 and the trigger fiber is
\* parked on the eventfd.  A task that was not submitted is "Unused";
\* runs, appended, notified (the eventfd writes made for the task),
\* written, shutdown and resumes are history.
PoolInit ==
    /\ pending = <<>>
    /\ completed = <<>>
    /\ task = [t \in Tasks |-> [state |-> "Unused", runs |-> 0, threw |-> FALSE,
                                 appended |-> 0, notified |-> 0]]
    /\ worker = [w \in Workers |-> [pc |-> "take", task |-> NoTask]]
    /\ eventfd = [value |-> 0, written |-> 0]
    /\ async = [taskCount |-> 0, trigger |-> "parked", shutdown |-> FALSE,
                submitter |-> [t \in Tasks |-> "none"],
                resumes |-> [t \in Tasks |-> 0]]

\* ------------------------------------------------------------------ scheduler

\* Scheduler::resumeFiber on the scheduler state s (a record of the fiber
\* states and the two run queues): a suspended fiber becomes runnable at the
\* tail of its queue; the link field lets a fiber be queued once only.
ResumeFiber(s, g) ==
    IF s.fstate[g] = "suspended"
    THEN [s EXCEPT !.fstate[g] = "runnable",
                   !.fgQueue = IF g \in FgFibers THEN Append(@, g) ELSE @,
                   !.bgQueue = IF g \in BgFibers THEN Append(@, g) ELSE @]
    ELSE s

\* Scheduler::suspendFiber(current): the running fiber is parked and control
\* goes back to the scheduler's frame.
SuspendFiber(f) ==
    /\ fstate' = [fstate EXCEPT ![f] = "suspended"]
    /\ current' = None
    /\ UNCHANGED <<fgQueue, bgQueue, fgCount>>

\* The fiber the scheduler runs next: foreground queue first, each FIFO.
NextRunnable ==
    IF fgQueue # <<>> THEN Head(fgQueue) ELSE Head(bgQueue)

\* Scheduler::run, one turn: pop the next runnable fiber and switch to it.
SchedulerRunFiber ==
    /\ loopPc = "sched"
    /\ current = None
    /\ fgQueue # <<>> \/ bgQueue # <<>>
    /\ current' = NextRunnable
    /\ fstate' = [fstate EXCEPT ![NextRunnable] = "running"]
    /\ fgQueue' = IF fgQueue # <<>> THEN Tail(fgQueue) ELSE fgQueue
    /\ bgQueue' = IF fgQueue # <<>> THEN bgQueue ELSE Tail(bgQueue)
    /\ UNCHANGED <<loopPc, fgCount, ctx, kernelVars, watchers, timerHeap, now, clock, poolVars, tcp, frame, hist>>

\* Scheduler::yieldTo: the running fiber goes to the tail of its queue.
FiberYields(f) ==
    /\ current = f
    /\ frame[f].pc = "idle"
    /\ fstate' = [fstate EXCEPT ![f] = "runnable"]
    /\ fgQueue' = IF f \in FgFibers THEN Append(fgQueue, f) ELSE fgQueue
    /\ bgQueue' = IF f \in BgFibers THEN Append(bgQueue, f) ELSE bgQueue
    /\ current' = None
    /\ UNCHANGED <<loopPc, fgCount, ctx, kernelVars, watchers, timerHeap, now, clock, poolVars, tcp, frame, hist>>

\* The fiber's procedure returns: the fiber is terminated and, if it is a
\* foreground fiber, the foreground count drops.
FiberTerminates(f) ==
    /\ current = f
    /\ frame[f].pc = "idle"
    /\ fstate' = [fstate EXCEPT ![f] = "terminated"]
    /\ fgCount' = IF f \in FgFibers THEN fgCount - 1 ELSE fgCount
    /\ current' = None
    /\ UNCHANGED <<loopPc, fgQueue, bgQueue, ctx, kernelVars, watchers, timerHeap, now, clock, poolVars, tcp, frame, hist>>

\* The running fiber resumes a suspended fiber g itself (as Event and Async
\* do), whatever g is suspended in.
FiberResumesOther(f, g) ==
    /\ current = f
    /\ frame[f].pc = "idle"
    /\ fstate[g] = "suspended"
    /\ LET s == ResumeFiber([fstate |-> fstate, fgQueue |-> fgQueue, bgQueue |-> bgQueue], g)
       IN /\ fstate' = s.fstate
          /\ fgQueue' = s.fgQueue
          /\ bgQueue' = s.bgQueue
    /\ hist' = [hist EXCEPT ![g].resumeCalls = @ + 1]
    /\ UNCHANGED <<loopPc, current, fgCount, ctx, kernelVars, watchers, timerHeap, now, clock, poolVars, tcp, frame>>

\* ------------------------------------------------------------------ poller, clock

Max(a, b) == IF a >= b THEN a ELSE b

\* A watcher and a timer live on the stack of the fiber that waits, so the
\* fiber identifies them.
Watcher(f, fd, cond) == [fiber |-> f, fd |-> fd, cond |-> cond]
Timer(f, expiry) == [fiber |-> f, expiry |-> expiry]

\* IOPoller::addWatcher / removeWatcher.
AddWatcher(ws, w) == ws \cup {w}
RemoveWatcher(ws, f) == {w \in ws : w.fiber # f}

\* IOClock::addTimer: expiryTime_ = now_ + duration; IOClock::removeTimer.
AddTimer(heap, f, duration) == heap \cup {Timer(f, now + Max(duration, 0))}
RemoveTimer(heap, f) == {t \in heap : t.fiber # f}

\* Heap::getTop: a timer of least expiry (any of them on a tie).
HeapTops(heap) == {t \in heap : \A u \in heap : t.expiry <= u.expiry}

\* IOClock::getDueTime.
GetDueTime ==
    IF timerHeap = {} THEN -1
    ELSE LET timer == CHOOSE t \in HeapTops(timerHeap) : TRUE
         IN Max(timer.expiry - now, 0)

\* The test of IOClock::removeExpiredTimers on the top timer.
\* Mutant: a timer that expires exactly now is not yet expired.
TimerExpired_Strict(timer, n) == timer.expiry < n

TimerExpired(timer, n) == timer.expiry <= n

\* The state the two dispatch phases of Loop::run work on.
DispatchState ==
    [fstate |-> fstate, fgQueue |-> fgQueue, bgQueue |-> bgQueue,
     frame |-> frame, hist |-> hist, heap |-> timerHeap]

\* myIOWatcher.callback of waitForFile: (store the ready conditions,)
\* resume the waiting fiber.
WatcherCallback(s, w) ==
    ResumeFiber([s EXCEPT !.hist[w.fiber].gotReady = TRUE,
                          !.hist[w.fiber].resumeCalls = @ + 1], w.fiber)

\* myIOTimer.callback of waitForFile: set isTimedOut, resume the fiber.
TimerCallback(s, t) ==
    ResumeFiber([s EXCEPT !.frame[t.fiber].isTimedOut = TRUE,
                          !.hist[t.fiber].resumeCalls = @ + 1], t.fiber)

\* The sequences that list the set S once each.
Orders(S) ==
    {q \in [1..Cardinality(S) -> S] : \A i, j \in 1..Cardinality(S) : q[i] = q[j] => i = j}

\* IOPoller::getReadyWatchers: emit each ready watcher once, in the order the
\* backend reports them.
RECURSIVE EmitWatchers(_, _)
EmitWatchers(s, order) ==
    IF order = <<>> THEN s
    ELSE EmitWatchers(WatcherCallback(s, Head(order)), Tail(order))

\* IOClock::removeExpiredTimers: while the top timer is expired, call its
\* callback and remove it from the heap.  The result is the set of states
\* the loop can end in (the heap's order among equal expiries is open).
RECURSIVE RemoveExpiredTimersFrom(_)
RemoveExpiredTimersFrom(s) ==
    IF s.heap = {} THEN {s}
    ELSE UNION {
        IF TimerExpired(timer, now)
        THEN RemoveExpiredTimersFrom(
                 [TimerCallback(s, timer) EXCEPT
                     !.heap = @ \ {timer},
                     !.hist[timer.fiber].timerRemovals = @ + 1])
        ELSE {s} : timer \in HeapTops(s.heap)}

\* ------------------------------------------------------------------ Loop helpers

\* Loop::getEffectiveReadTimeout / getEffectiveWriteTimeout.
GetEffectiveReadTimeout(fd) ==
    IF ctx[fd].blocking THEN ctx[fd].readTimeout ELSE 0

\* Mutant: the write side reads the read timeout.
GetEffectiveWriteTimeout_ReadTimeout(fd) ==
    IF ctx[fd].blocking THEN ctx[fd].readTimeout ELSE 0

GetEffectiveWriteTimeout(fd) ==
    IF ctx[fd].blocking THEN ctx[fd].writeTimeout ELSE 0

\* Mutant: MSG_DONTWAIT is not looked at.
EntryTimeout_IgnoresDontWait(op, fd, flags) ==
    IF op \in ReadFileOps THEN GetEffectiveReadTimeout(fd)
    ELSE IF op \in WriteFileOps THEN GetEffectiveWriteTimeout(fd)
    ELSE 0

\* The timeout the read/write family computes on entry: MSG_DONTWAIT gives 0,
\* otherwise the effective read (write) timeout of the descriptor.
EntryTimeout(op, fd, flags) ==
    IF op \in MsgOps /\ "MSG_DONTWAIT" \in flags THEN 0
    ELSE IF op \in ReadFileOps THEN GetEffectiveReadTimeout(fd)
    ELSE IF op \in WriteFileOps THEN GetEffectiveWriteTimeout(fd)
    ELSE 0

\* The timeout an operation hands to waitForFile: accept4 and connect read
\* the effective timeout at the call of waitForFile.
WaitTimeout(fr) ==
    IF fr.op = "accept4" THEN GetEffectiveReadTimeout(fr.fd)
    ELSE IF fr.op = "connect" THEN GetEffectiveWriteTimeout(fr.fd)
    ELSE fr.timeout

\* The condition an operation waits for.
WaitCondition(op) == IF op \in ReadSideOps THEN "In" ELSE "Out"

\* Mutant: timeout 0 is taken for "wait indefinitely".
WaitForFileSuspends_Always(timeout) == TRUE

\* Mutant: the result ignores isTimedOut.
WaitForFileResult_IgnoresTimer(timeout, isTimedOut) == timeout # 0

\* Loop::waitForFile: the branch taken, and the value returned.
WaitForFileSuspends(timeout) == timeout # 0
WaitForFileArmsTimer(timeout) == timeout > 0
WaitForFileResult(timeout, isTimedOut) ==
    IF timeout < 0 THEN TRUE
    ELSE IF timeout = 0 THEN FALSE
    ELSE ~isTimedOut

\* Mutant: the guard removes the timer whether or not it fired.
TimerGuardRemoves_Always(isTimedOut) == TRUE

\* scopeGuard2 of waitForFile: removeTimer unless the timer fired.
TimerGuardRemoves(isTimedOut) == ~isTimedOut

\* Mutant: EINTR is not retried.
RetriesOn_Never(e) == FALSE

\* readFile / writeFile / accept4 / open: a failed system call is retried
\* when errno is EINTR.
RetriesOn(e) == e = "EINTR"

\* Loop::connect waits for writability on these errors of ::connect.
ConnectWaitsOn(e) == e \in {"EINTR", "EINPROGRESS"}

\* Mutants: one errno for every operation.
WaitFailedErrno_EAGAIN(op) == "EAGAIN"
WaitFailedErrno_EINPROGRESS(op) == "EINPROGRESS"

\* errno set by an operation whose waitForFile returned false.
WaitFailedErrno(op) == IF op = "connect" THEN "EINPROGRESS" ELSE "EAGAIN"

\* recv / recvfrom with MSG_WAITALL run the fill loop.
IsWaitAll(fr) == fr.op \in RecvOps /\ "MSG_WAITALL" \in fr.flags

\* Mutant: a failure returns -1 whatever was collected.
FailureValue_MinusOne(fr) == -1

\* The value an operation returns when readFile (writeFile, ...) failed: -1,
\* but the bytes collected so far for a MSG_WAITALL loop that made progress.
FailureValue(fr) ==
    IF IsWaitAll(fr) /\ fr.byteCount # 0 THEN fr.byteCount ELSE -1

\* Loop::open: ::open(path, flags, mode | O_NONBLOCK).  The flag word of the
\* model holds the caller's flags and, as "mode_O_NONBLOCK", the bit
\* (mode & O_NONBLOCK) of the caller's mode.  The kernel takes the status
\* flags from the flags argument; the mode argument gives permission bits.
OpenKernelFlags(flags) == flags \cap {"O_NONBLOCK", "O_APPEND"}

\* Loop::open and Loop::accept4: the virtual blocking flag of the new fd.
OpenBlocking(flags) == "mode_O_NONBLOCK" \notin flags
\* Mutant: accept4 stores the flag the wrong way round.
Accept4Blocking_Inverted(flags) == "SOCK_NONBLOCK" \in flags

Accept4Blocking(flags) == "SOCK_NONBLOCK" \notin flags

\* The descriptor the kernel hands out to ::open / ::accept4: the lowest one
\* that is not open.
FreeFDs == {fd \in FDs : ~kernel[fd].open}
NewFD == CHOOSE fd \in FreeFDs : \A other \in FreeFDs : fd <= other

\* Mutants: return when no foreground fiber is runnable; the test inverted.
NoForegroundFibers_NoneRunnable == fgQueue = <<>>
NoForegroundFibers_Inverted == fgCount # 0

\* Loop::run: the test after scheduler_.run().
NoForegroundFibers == fgCount = 0

\* Program discipline of the fibers: one waiter per (fd, direction), no
\* close or unregisterFD of a descriptor a fiber waits on, registerFD only
\* of an open descriptor the loop does not know, unregisterFD only of one
\* it knows.
MayCall(op, fd) ==
    /\ op \in WaitOps => ~\E w \in watchers : w.fd = fd /\ w.cond = WaitCondition(op)
    /\ op \in {"close", "unregisterFD"} => ~\E w \in watchers : w.fd = fd
    /\ op = "registerFD" => kernel[fd].open /\ ~ContextExists(fd)
    /\ op = "unregisterFD" => ContextExists(fd)

\* ------------------------------------------------------------------ Loop operations

\* The operation of f returns value v, its caller reads errno e; h is the
\* history of the operation.
Return(f, v, e, h) ==
    /\ frame' = [frame EXCEPT ![f].pc = "ret", ![f].ret = v, ![f].errno = e]
    /\ hist' = h

\* A failed system call is retried: the operation stays at its system call.
Retry(f, e, h) ==
    /\ frame' = [frame EXCEPT ![f].errno = e]
    /\ hist' = h

\* Loop::waitForFile(fd, conditions, nullptr, timeout), called by the
\* operation of fiber f after a system call failed with errno e: with
\* timeout = 0 it returns false at once and the operation fails; otherwise it
\* arms the watcher (and the timer for timeout > 0) and suspends the fiber.
WaitForFile(f, timeout, e, h) ==
    LET fr == frame[f] IN
    IF WaitForFileSuspends(timeout)
    THEN /\ watchers' = AddWatcher(watchers, Watcher(f, fr.fd, WaitCondition(fr.op)))
         /\ timerHeap' = IF WaitForFileArmsTimer(timeout)
                         THEN AddTimer(timerHeap, f, timeout)
                         ELSE timerHeap
         /\ frame' = [frame EXCEPT ![f].pc = "wait", ![f].wtimeout = timeout,
                                   ![f].isTimedOut = FALSE, ![f].errno = e]
         /\ hist' = [h EXCEPT ![f].called = TRUE, ![f].waited = TRUE,
                              ![f].armed = IF WaitForFileArmsTimer(timeout)
                                           THEN "both" ELSE "watcher",
                              ![f].gotReady = FALSE, ![f].resumeCalls = 0,
                              ![f].timerRemovals = 0]
         /\ SuspendFiber(f)
    ELSE /\ frame' = [frame EXCEPT ![f].pc = "ret", ![f].wtimeout = timeout,
                                   ![f].ret = FailureValue(fr),
                                   ![f].errno = WaitFailedErrno(fr.op)]
         /\ hist' = [h EXCEPT ![f].called = TRUE]
         /\ UNCHANGED <<schedVars, watchers, timerHeap>>

\* The history after one more system call of f's operation, which failed
\* with e (NoError: it did not fail).
AfterSyscall(f, e) ==
    [hist EXCEPT ![f].sawEINTR = @ \/ e = "EINTR",
                 ![f].retried = @ \/ (hist[f].waited /\ frame[f].isTimedOut),
                 ![f].lastErr = e]

\* The fiber calls a Loop operation with the argument arg (a timeval, or
\* poll's <<nfds, timeout>>): LOOP_CHECK_FD, then the timeout.
CallArg(f, op, fd, flags, arg) ==
    /\ current = f
    /\ frame[f].pc = "idle"
    /\ MayCall(op, fd)
    /\ frame' = [frame EXCEPT ![f] =
                    IF op \in CheckedOps /\ ~ContextExists(fd)
                    THEN [NoFrame EXCEPT !.op = op, !.fd = fd, !.flags = flags,
                                         !.arg = arg,
                                         !.pc = "ret", !.ret = -1, !.errno = "EBADF"]
                    ELSE [NoFrame EXCEPT !.op = op, !.fd = fd, !.flags = flags,
                                         !.arg = arg,
                                         !.pc = "syscall",
                                         !.timeout = EntryTimeout(op, fd, flags)]]
    /\ hist' = [hist EXCEPT ![f] = NoHist]
    /\ UNCHANGED <<loopPc, schedVars, ctx, kernelVars, watchers, timerHeap, now, clock, poolVars, tcp>>

\* The fiber calls a Loop operation that takes no such argument.
Call(f, op, fd, flags) == CallArg(f, op, fd, flags, ZeroTime)

\* readFile / writeFile: the system call transfers n bytes.
SyscallFileOk(f, n) ==
    LET fr == frame[f] IN
    /\ current = f
    /\ fr.pc = "syscall"
    /\ fr.op \in ReadFileOps \cup WriteFileOps
    /\ n <= BufSize - fr.byteCount
    /\ IF IsWaitAll(fr) /\ n # 0 /\ fr.byteCount + n # BufSize
       THEN /\ frame' = [frame EXCEPT ![f].byteCount = @ + n]
            /\ hist' = AfterSyscall(f, NoError)
       ELSE Return(f, IF IsWaitAll(fr) THEN fr.byteCount + n ELSE n, fr.errno,
                   AfterSyscall(f, NoError))
    /\ UNCHANGED <<loopPc, schedVars, ctx, kernelVars, watchers, timerHeap, now, clock, poolVars, tcp>>

\* readFile / writeFile: the system call fails with errno e.
SyscallFileErr(f, e) ==
    LET fr == frame[f] IN
    /\ current = f
    /\ fr.pc = "syscall"
    /\ fr.op \in ReadFileOps \cup WriteFileOps
    /\ IF e = "EAGAIN"
       THEN WaitForFile(f, WaitTimeout(fr), e, AfterSyscall(f, e))
       ELSE /\ IF RetriesOn(e)
               THEN Retry(f, e, AfterSyscall(f, e))
               ELSE Return(f, FailureValue(fr), e, AfterSyscall(f, e))
            /\ UNCHANGED <<schedVars, watchers, timerHeap>>
    /\ UNCHANGED <<loopPc, ctx, kernelVars, now, clock, poolVars, tcp>>

\* Loop::accept4: ::accept4 returns a new descriptor, which is registered
\* with the listening descriptor's timeouts.
SyscallAccept4Ok(f) ==
    LET fr == frame[f] IN
    /\ current = f
    /\ fr.pc = "syscall"
    /\ fr.op = "accept4"
    /\ FreeFDs # {}
    /\ ctx' = [ctx EXCEPT ![NewFD] = FileOptions(TRUE, Accept4Blocking(fr.flags),
                                                 ctx[fr.fd].readTimeout,
                                                 ctx[fr.fd].writeTimeout)]
    /\ kernel' = [kernel EXCEPT ![NewFD] = KernelFile(TRUE, {"O_NONBLOCK"},
                                                      kernel[fr.fd].rcvtimeo,
                                                      kernel[fr.fd].sndtimeo)]
    /\ Return(f, NewFD, fr.errno, AfterSyscall(f, NoError))
    /\ UNCHANGED <<loopPc, schedVars, watchers, timerHeap, now, clock, poolVars, tcp, atRegister>>

\* Loop::accept4: ::accept4 fails with errno e.
SyscallAccept4Err(f, e) ==
    LET fr == frame[f] IN
    /\ current = f
    /\ fr.pc = "syscall"
    /\ fr.op = "accept4"
    /\ IF e = "EAGAIN"
       THEN WaitForFile(f, WaitTimeout(fr), e, AfterSyscall(f, e))
       ELSE /\ IF RetriesOn(e)
               THEN Retry(f, e, AfterSyscall(f, e))
               ELSE Return(f, -1, e, AfterSyscall(f, e))
            /\ UNCHANGED <<schedVars, watchers, timerHeap>>
    /\ UNCHANGED <<loopPc, ctx, kernelVars, now, clock, poolVars, tcp>>

\* Loop::connect: ::connect succeeds at once (e = NoError) or fails with e.
SyscallConnect(f, e) ==
    LET fr == frame[f] IN
    /\ current = f
    /\ fr.pc = "syscall"
    /\ fr.op = "connect"
    /\ IF e # NoError /\ ConnectWaitsOn(e)
       THEN WaitForFile(f, WaitTimeout(fr), e, AfterSyscall(f, e))
       ELSE /\ Return(f, IF e = NoError THEN 0 ELSE -1, e, AfterSyscall(f, e))
            /\ UNCHANGED <<schedVars, watchers, timerHeap>>
    /\ UNCHANGED <<loopPc, ctx, kernelVars, now, clock, poolVars, tcp>>

\* Loop::open: ::open returns a new descriptor (e = NoError), which is
\* registered, or fails with e.
SyscallOpen(f, e) ==
    LET fr == frame[f] IN
    /\ current = f
    /\ fr.pc = "syscall"
    /\ fr.op = "open"
    /\ IF e = NoError
       THEN /\ FreeFDs # {}
            /\ ctx' = [ctx EXCEPT ![NewFD] = FileOptions(FALSE, OpenBlocking(fr.flags), -1, -1)]
            /\ kernel' = [kernel EXCEPT ![NewFD] =
                              KernelFile(FALSE, OpenKernelFlags(fr.flags), ZeroTime, ZeroTime)]
            /\ Return(f, NewFD, fr.errno, AfterSyscall(f, e))
       ELSE /\ ctx' = ctx
            /\ kernel' = kernel
            /\ IF RetriesOn(e)
               THEN Retry(f, e, AfterSyscall(f, e))
               ELSE Return(f, -1, e, AfterSyscall(f, e))
    /\ UNCHANGED <<loopPc, schedVars, watchers, timerHeap, now, clock, poolVars, tcp, atRegister>>

\* Mutant: destroyIOContext leaves the context in place.
DestroyIOContext_Keeps(fd) == ctx

\* Loop::destroyIOContext.
DestroyIOContext(fd) == [ctx EXCEPT ![fd] = NoContext]

\* Loop::close: destroy the context, then ::close, whose result is returned.
SyscallClose(f, e) ==
    LET fr == frame[f] IN
    /\ current = f
    /\ fr.pc = "syscall"
    /\ fr.op = "close"
    /\ ctx' = DestroyIOContext(fr.fd)
    /\ kernel' = [kernel EXCEPT ![fr.fd] = KernelClosed]
    /\ Return(f, IF e = NoError THEN 0 ELSE -1, e, AfterSyscall(f, e))
    /\ UNCHANGED <<loopPc, schedVars, watchers, timerHeap, now, clock, poolVars, tcp, atRegister>>

\* Loop::fcntl.  F_GETFL: the kernel's flag word with its O_NONBLOCK bit
\* replaced by the virtual flag.  F_SETFL: the kernel gets flags | O_NONBLOCK
\* and the virtual blocking flag becomes (flags & O_NONBLOCK) == 0.  ::fcntl
\* succeeds (e = NoError) or fails with e.
GetFlResult(fd) ==
    (kernel[fd].flags \ {"O_NONBLOCK"})
        \cup (IF ctx[fd].blocking THEN {} ELSE {"O_NONBLOCK"})

\* Mutant: F_SETFL stores the flag the wrong way round.
SetFlBlocking_Inverted(flags) == "O_NONBLOCK" \in flags

SetFlBlocking(flags) == "O_NONBLOCK" \notin flags

SyscallFcntl(f, e) ==
    LET fr == frame[f] IN
    /\ current = f
    /\ fr.pc = "syscall"
    /\ fr.op \in {"fcntl_getfl", "fcntl_setfl"}
    /\ IF e # NoError
       THEN /\ Return(f, -1, e, AfterSyscall(f, e))
            /\ UNCHANGED <<ctx, kernel>>
       ELSE IF fr.op = "fcntl_getfl"
       THEN /\ frame' = [frame EXCEPT ![f].pc = "ret", ![f].ret = 0,
                                      ![f].outFlags = GetFlResult(fr.fd)]
            /\ hist' = AfterSyscall(f, e)
            /\ UNCHANGED <<ctx, kernel>>
       ELSE /\ kernel' = [kernel EXCEPT ![fr.fd].flags =
                              (fr.flags \cup {"O_NONBLOCK"}) \cap SettableFlags]
            /\ ctx' = [ctx EXCEPT ![fr.fd].blocking = SetFlBlocking(fr.flags)]
            /\ Return(f, 0, fr.errno, AfterSyscall(f, e))
    /\ UNCHANGED <<loopPc, schedVars, watchers, timerHeap, now, clock, poolVars, tcp, atRegister>>

\* TimeToTimeout / TimeoutToTime: timeval to stored milliseconds and back.
TimeToTimeout(time) ==
    IF time[1] = 0 /\ time[2] = 0 THEN -1
    ELSE time[1] * 1000 + time[2] \div 1000

TimeoutToTime(timeout) ==
    IF timeout < 0 THEN ZeroTime
    ELSE <<timeout \div 1000, (timeout % 1000) * 1000>>

\* Loop::getsockopt / setsockopt of SO_RCVTIMEO / SO_SNDTIMEO: served from
\* the stored options, no system call; ENOTSOCK for a descriptor that is not
\* a socket.
Sockopt(f) ==
    LET fr == frame[f]
        isRead == "SO_RCVTIMEO" \in fr.flags
    IN
    /\ current = f
    /\ fr.pc = "syscall"
    /\ fr.op \in {"getsockopt", "setsockopt"}
    /\ IF ~ctx[fr.fd].isSocket
       THEN /\ Return(f, -1, "ENOTSOCK", hist)
            /\ ctx' = ctx
       ELSE IF fr.op = "setsockopt"
       THEN /\ ctx' = IF isRead
                     THEN [ctx EXCEPT ![fr.fd].readTimeout = TimeToTimeout(fr.arg)]
                     ELSE [ctx EXCEPT ![fr.fd].writeTimeout = TimeToTimeout(fr.arg)]
            /\ Return(f, 0, fr.errno, hist)
       ELSE /\ frame' = [frame EXCEPT
                            ![f].pc = "ret", ![f].ret = 0,
                            ![f].outTime = TimeoutToTime(IF isRead
                                                         THEN ctx[fr.fd].readTimeout
                                                         ELSE ctx[fr.fd].writeTimeout)]
            /\ hist' = hist
            /\ ctx' = ctx
    /\ UNCHANGED <<loopPc, schedVars, kernelVars, watchers, timerHeap, now, clock, poolVars, tcp>>

\* Loop::socket: ::socket(domain, type | SOCK_NONBLOCK, protocol); the new
\* descriptor is registered as a socket.
SocketBlocking(flags) == "SOCK_NONBLOCK" \notin flags

SyscallSocket(f, e) ==
    LET fr == frame[f] IN
    /\ current = f
    /\ fr.pc = "syscall"
    /\ fr.op = "socket"
    /\ IF e = NoError
       THEN /\ FreeFDs # {}
            /\ ctx' = [ctx EXCEPT ![NewFD] = FileOptions(TRUE, SocketBlocking(fr.flags), -1, -1)]
            /\ kernel' = [kernel EXCEPT ![NewFD] =
                              KernelFile(TRUE, {"O_NONBLOCK"}, ZeroTime, ZeroTime)]
            /\ Return(f, NewFD, fr.errno, AfterSyscall(f, e))
       ELSE /\ Return(f, -1, e, AfterSyscall(f, e))
            /\ UNCHANGED <<ctx, kernel>>
    /\ UNCHANGED <<loopPc, schedVars, watchers, timerHeap, now, clock, poolVars, tcp, atRegister>>

\* Loop::pipe2: ::pipe2(fds, flags | O_NONBLOCK); both ends are registered.
Pipe2Blocking(flags) == "O_NONBLOCK" \notin flags

SyscallPipe2(f, e) ==
    LET fr == frame[f] IN
    /\ current = f
    /\ fr.pc = "syscall"
    /\ fr.op = "pipe2"
    /\ IF e = NoError
       THEN /\ Cardinality(FreeFDs) >= 2
            /\ LET rd == NewFD
                   wr == CHOOSE fd \in FreeFDs \ {rd} :
                             \A other \in FreeFDs \ {rd} : fd <= other
                   options == FileOptions(FALSE, Pipe2Blocking(fr.flags), -1, -1)
                   file == KernelFile(FALSE, {"O_NONBLOCK"}, ZeroTime, ZeroTime)
               IN /\ ctx' = [ctx EXCEPT ![rd] = options, ![wr] = options]
                  /\ kernel' = [kernel EXCEPT ![rd] = file, ![wr] = file]
            /\ Return(f, 0, fr.errno, AfterSyscall(f, e))
       ELSE /\ Return(f, -1, e, AfterSyscall(f, e))
            /\ UNCHANGED <<ctx, kernel>>
    /\ UNCHANGED <<loopPc, schedVars, watchers, timerHeap, now, clock, poolVars, tcp, atRegister>>

\* SetBlocking(fd, false) as registerFD calls it: the descriptor was blocking
\* iff the kernel's O_NONBLOCK was clear.
WasBlocking(fd) == "O_NONBLOCK" \notin kernel[fd].flags

\* Loop::registerFD: fstat, SetBlocking(fd, false), the socket timeouts read
\* from the kernel, createIOContext.
RegisterFD(f) ==
    LET fr == frame[f]
        file == kernel[fr.fd]
    IN
    /\ current = f
    /\ fr.pc = "syscall"
    /\ fr.op = "registerFD"
    /\ atRegister' = [atRegister EXCEPT ![fr.fd] = file]
    /\ kernel' = [kernel EXCEPT ![fr.fd].flags = @ \cup {"O_NONBLOCK"}]
    /\ ctx' = [ctx EXCEPT ![fr.fd] =
                  IF file.isSocket
                  THEN FileOptions(TRUE, WasBlocking(fr.fd),
                                   TimeToTimeout(file.rcvtimeo),
                                   TimeToTimeout(file.sndtimeo))
                  ELSE FileOptions(FALSE, WasBlocking(fr.fd), -1, -1)]
    /\ Return(f, 0, fr.errno, hist)
    /\ UNCHANGED <<loopPc, schedVars, watchers, timerHeap, now, clock, poolVars, tcp>>

\* Loop::unregisterFD: SetBlocking(fd, true) if the stored blocking flag is
\* set, the stored timeouts written to the kernel for a socket,
\* destroyIOContext.
UnregisterFD(f) ==
    LET fr == frame[f]
        options == ctx[fr.fd]
    IN
    /\ current = f
    /\ fr.pc = "syscall"
    /\ fr.op = "unregisterFD"
    /\ kernel' = [kernel EXCEPT
                     ![fr.fd].flags = IF options.blocking
                                      THEN @ \ {"O_NONBLOCK"} ELSE @,
                     ![fr.fd].rcvtimeo = IF options.isSocket
                                         THEN TimeoutToTime(options.readTimeout)
                                         ELSE @,
                     ![fr.fd].sndtimeo = IF options.isSocket
                                         THEN TimeoutToTime(options.writeTimeout)
                                         ELSE @]
    /\ ctx' = DestroyIOContext(fr.fd)
    /\ Return(f, 0, fr.errno, hist)
    /\ UNCHANGED <<loopPc, schedVars, watchers, timerHeap, now, clock, poolVars, tcp, atRegister>>

\* Loop::poll: the pairs it maps events to conditions with, and ready
\* conditions to revents with.
PollEventMap ==
    {<<"POLLIN", "In">>, <<"POLLOUT", "Out">>, <<"POLLRDHUP", "RdHup">>,
     <<"POLLPRI", "Pri">>}
PollReventMap == PollEventMap \cup {<<"POLLERR", "Err">>, <<"POLLHUP", "Hup">>}
PollConditions(events) == {x[2] : x \in {y \in PollEventMap : y[1] \in events}}
PollBits(ready) == {x[1] : x \in {y \in PollReventMap : y[2] \in ready}}

\* The arguments of the poll call in a frame.
PollNfds(fr) == fr.arg[1]
PollTimeout(fr) == fr.arg[2]
\* The condition poll's watcher waits for (the fibers pass one event).
PollWatch(fr) == CHOOSE c \in PollConditions(fr.flags) : TRUE

\* Mutant: setDelay(0) arms no timer.
SetDelayArmsTimer_Positive(duration) == duration > 0

\* Loop::setDelay arms a timer unless the duration is negative.
SetDelayArmsTimer(duration) == duration >= 0

\* Loop::poll, up to its suspension: nfds = 0 is setDelay(timeout); nfds = 1
\* reports POLLNVAL for a descriptor without context and otherwise calls
\* waitForFile(fd, conditions, &readyIOConditions, timeout); any other nfds
\* fails with ENOSYS.
PollEnters(f) ==
    LET fr == frame[f]
        timeout == PollTimeout(fr)
        delay == PollNfds(fr) = 0
        armsTimer == IF delay THEN SetDelayArmsTimer(timeout)
                     ELSE WaitForFileArmsTimer(timeout)
    IN
    /\ current = f
    /\ fr.pc = "syscall"
    /\ fr.op = "poll"
    /\ IF PollNfds(fr) > 1
       THEN /\ Return(f, -1, "ENOSYS", hist)
            /\ UNCHANGED <<schedVars, watchers, timerHeap>>
       ELSE IF ~delay /\ ~ContextExists(fr.fd)
       THEN /\ frame' = [frame EXCEPT ![f].pc = "ret", ![f].ret = 1,
                                      ![f].outFlags = {"POLLNVAL"}]
            /\ hist' = hist
            /\ UNCHANGED <<schedVars, watchers, timerHeap>>
       ELSE IF ~delay /\ ~WaitForFileSuspends(timeout)
       THEN /\ Return(f, 0, fr.errno, [hist EXCEPT ![f].called = TRUE])
            /\ UNCHANGED <<schedVars, watchers, timerHeap>>
       ELSE /\ watchers' = IF delay THEN watchers
                           ELSE AddWatcher(watchers, Watcher(f, fr.fd, PollWatch(fr)))
            /\ timerHeap' = IF armsTimer THEN AddTimer(timerHeap, f, timeout)
                            ELSE timerHeap
            /\ frame' = [frame EXCEPT ![f].pc = "wait", ![f].wtimeout = timeout,
                                      ![f].isTimedOut = FALSE]
            /\ hist' = [hist EXCEPT ![f].called = ~delay, ![f].waited = TRUE,
                                    ![f].armed = IF delay
                                                 THEN (IF armsTimer THEN "timer" ELSE "none")
                                                 ELSE (IF armsTimer THEN "both" ELSE "watcher"),
                                    ![f].gotReady = FALSE, ![f].resumeCalls = 0,
                                    ![f].timerRemovals = 0]
            /\ SuspendFiber(f)
    /\ UNCHANGED <<loopPc, ctx, kernelVars, now, clock, poolVars, tcp>>

\* The conditions poll may find in readyIOConditions after waitForFile
\* returned true: what the poller reported for its watcher, or, when the
\* fiber was resumed without the watcher's callback having run, whatever the
\* uninitialised variable holds.
ReadyConditions(f) ==
    IF hist[f].gotReady
    THEN {r \in SUBSET {PollWatch(frame[f]), "Err", "Hup"} : r # {}}
    ELSE SUBSET {"In", "Out", "Err", "Hup"}

\* Loop::poll, after the fiber was resumed: the scope guards remove watcher
\* and timer; setDelay's caller returns 0; after waitForFile returned true
\* revents is built from the ready conditions and 1 returned, after false 0
\* is returned.
PollLeaves(f, ready) ==
    LET fr == frame[f]
        delay == PollNfds(fr) = 0
        armedTimer == IF delay THEN SetDelayArmsTimer(fr.wtimeout)
                      ELSE WaitForFileArmsTimer(fr.wtimeout)
        guardRemoves == armedTimer /\ TimerGuardRemoves(fr.isTimedOut)
        h == [hist EXCEPT ![f].timerRemovals = IF guardRemoves THEN @ + 1 ELSE @]
    IN
    /\ current = f
    /\ fr.pc = "wait"
    /\ fr.op = "poll"
    /\ watchers' = RemoveWatcher(watchers, f)
    /\ timerHeap' = IF guardRemoves THEN RemoveTimer(timerHeap, f) ELSE timerHeap
    /\ IF ~delay /\ WaitForFileResult(fr.wtimeout, fr.isTimedOut)
       THEN /\ ready \in ReadyConditions(f)
            /\ frame' = [frame EXCEPT ![f].pc = "ret", ![f].ret = 1,
                                      ![f].ready = ready,
                                      ![f].outFlags = PollBits(ready)]
            /\ hist' = h
       ELSE /\ ready = {}
            /\ Return(f, 0, fr.errno, h)
    /\ UNCHANGED <<loopPc, schedVars, ctx, kernelVars, now, clock, poolVars, tcp>>

\* The fiber runs again inside waitForFile: the scope guards remove the
\* watcher and (unless it fired) the timer, waitForFile returns, and the
\* operation goes on: it retries the system call after `true` and fails
\* after `false`; connect reads SO_ERROR (soError) after `true`.
WaitForFileReturns(f, soError) ==
    LET fr == frame[f]
        result == WaitForFileResult(fr.wtimeout, fr.isTimedOut)
        guardRemoves == WaitForFileArmsTimer(fr.wtimeout) /\ TimerGuardRemoves(fr.isTimedOut)
        h == [hist EXCEPT ![f].timerRemovals = IF guardRemoves THEN @ + 1 ELSE @]
    IN
    /\ current = f
    /\ fr.pc = "wait"
    /\ fr.op \in WaitOps
    /\ watchers' = RemoveWatcher(watchers, f)
    /\ timerHeap' = IF guardRemoves THEN RemoveTimer(timerHeap, f) ELSE timerHeap
    /\ IF ~result
       THEN /\ soError = NoError
            /\ Return(f, FailureValue(fr), WaitFailedErrno(fr.op), h)
       ELSE IF fr.op = "connect"
       THEN Return(f, IF soError = NoError THEN 0 ELSE -1,
                   IF soError = NoError THEN fr.errno ELSE soError, h)
       ELSE /\ soError = NoError
            /\ frame' = [frame EXCEPT ![f].pc = "syscall"]
            /\ hist' = h
    /\ UNCHANGED <<loopPc, schedVars, ctx, kernelVars, now, clock, poolVars, tcp>>

\* ------------------------------------------------- creations that throw
\* createIOContext throws (ioPoller_.createContext fails) before a context
\* exists for the descriptor; the scope guards of the operation then run in
\* the reverse order of their construction and the exception leaves the
\* operation.

\* Mutant: the guard was dismissed before createIOContext.
ScopeGuardCloses_Dismissed(k, fds) == k

\* The guard of open, socket, accept4 and pipe2 (scopeGuard1): ::close.
ScopeGuardCloses(k, fds) ==
    [fd \in FDs |-> IF fd \in fds THEN KernelClosed ELSE k[fd]]

\* Mutant: pipe2 has no second guard.
ScopeGuardDestroys_Keeps(c, fd) == c

\* scopeGuard2 of pipe2: destroyIOContext(fds[0]).
ScopeGuardDestroys(c, fd) == [c EXCEPT ![fd] = NoContext]

\* Mutant: the guard of registerFD sets the descriptor blocking always.
ScopeGuardRestores_Always(k, fd, blocking) ==
    [k EXCEPT ![fd].flags = @ \ {"O_NONBLOCK"}]

\* The guard of registerFD: SetBlocking(fd, true) if the descriptor was
\* blocking.
ScopeGuardRestores(k, fd, blocking) ==
    [k EXCEPT ![fd].flags = IF blocking THEN @ \ {"O_NONBLOCK"} ELSE @]

\* The exception leaves the operation of f; guards lists what its scope
\* guards did.
Throws(f, guards) ==
    /\ frame' = [frame EXCEPT ![f].pc = "threw"]
    /\ hist' = [AfterSyscall(f, NoError) EXCEPT ![f].unwound = guards]

\* Loop::open, Loop::socket, Loop::accept4: the system call returns a new
\* descriptor and createIOContext throws.
CreationThrows(f) ==
    LET fr == frame[f]
        file == IF fr.op = "open"
                THEN KernelFile(FALSE, OpenKernelFlags(fr.flags), ZeroTime, ZeroTime)
                ELSE IF fr.op = "socket"
                THEN KernelFile(TRUE, {"O_NONBLOCK"}, ZeroTime, ZeroTime)
                ELSE KernelFile(TRUE, {"O_NONBLOCK"}, kernel[fr.fd].rcvtimeo,
                                kernel[fr.fd].sndtimeo)
    IN
    /\ current = f
    /\ fr.pc = "syscall"
    /\ fr.op \in {"open", "socket", "accept4"}
    /\ FreeFDs # {}
    /\ kernel' = ScopeGuardCloses([kernel EXCEPT ![NewFD] = file], {NewFD})
    /\ ctx' = ctx
    /\ Throws(f, <<<<"close", NewFD>>>>)
    /\ UNCHANGED <<loopPc, schedVars, watchers, timerHeap, now, clock, poolVars, tcp, atRegister>>

\* Loop::pipe2: ::pipe2 returns two descriptors and createIOContext throws
\* for the first (failing = 1) or, the first having its context, for the
\* second (failing = 2).
Pipe2Throws(f, failing) ==
    LET fr == frame[f]
        rd == NewFD
        wr == CHOOSE fd \in FreeFDs \ {rd} :
                  \A other \in FreeFDs \ {rd} : fd <= other
        file == KernelFile(FALSE, {"O_NONBLOCK"}, ZeroTime, ZeroTime)
        created == [kernel EXCEPT ![rd] = file, ![wr] = file]
        options == FileOptions(FALSE, Pipe2Blocking(fr.flags), -1, -1)
    IN
    /\ current = f
    /\ fr.pc = "syscall"
    /\ fr.op = "pipe2"
    /\ Cardinality(FreeFDs) >= 2
    /\ kernel' = ScopeGuardCloses(created, {rd, wr})
    /\ IF failing = 1
       THEN /\ ctx' = ctx
            /\ Throws(f, <<<<"close", rd>>, <<"close", wr>>>>)
       ELSE /\ ctx' = ScopeGuardDestroys([ctx EXCEPT ![rd] = options], rd)
            /\ Throws(f, <<<<"destroyIOContext", rd>>, <<"close", rd>>,
                           <<"close", wr>>>>)
    /\ UNCHANGED <<loopPc, schedVars, watchers, timerHeap, now, clock, poolVars, tcp, atRegister>>

\* Loop::registerFD: SetBlocking(fd, false), then getsockopt fails or
\* createIOContext throws.
RegisterFDThrows(f) ==
    LET fr == frame[f]
        blocking == WasBlocking(fr.fd)
        switched == [kernel EXCEPT ![fr.fd].flags = @ \cup {"O_NONBLOCK"}]
    IN
    /\ current = f
    /\ fr.pc = "syscall"
    /\ fr.op = "registerFD"
    /\ kernel' = ScopeGuardRestores(switched, fr.fd, blocking)
    /\ ctx' = ctx
    /\ Throws(f, IF blocking THEN <<<<"SetBlocking", fr.fd>>>> ELSE <<>>)
    /\ UNCHANGED <<loopPc, schedVars, watchers, timerHeap, now, clock, poolVars, tcp, atRegister>>

\* The fiber's procedure catches the exception and goes on.
ExceptionCaught(f) ==
    /\ current = f
    /\ frame[f].pc = "threw"
    /\ frame' = [frame EXCEPT ![f] = NoFrame]
    /\ hist' = [hist EXCEPT ![f] = NoHist]
    /\ UNCHANGED <<loopPc, schedVars, ctx, kernelVars, watchers, timerHeap, now, clock, poolVars, tcp>>

\* The operation's caller goes on with the fiber's procedure.
OperationDone(f) ==
    /\ current = f
    /\ frame[f].pc = "ret"
    /\ frame' = [frame EXCEPT ![f] = NoFrame]
    /\ hist' = [hist EXCEPT ![f] = NoHist]
    /\ UNCHANGED <<loopPc, schedVars, ctx, kernelVars, watchers, timerHeap, now, clock, poolVars, tcp>>

\* ------------------------------------------------------------------ Loop::run

\* Mutant: the loop polls without waiting for scheduler_.run() to return.
SchedulerDrained_Always == TRUE

SchedulerDrained == current = None /\ fgQueue = <<>> /\ bgQueue = <<>>

\* scheduler_.run() has returned and no foreground fiber is left: return.
LoopRunReturns ==
    /\ loopPc = "sched"
    /\ SchedulerDrained
    /\ NoForegroundFibers
    /\ loopPc' = "returned"
    /\ UNCHANGED <<schedVars, ctx, kernelVars, watchers, timerHeap, now, clock, poolVars, tcp, frame, hist>>

\* scheduler_.run() has returned and foreground fibers are left:
\* ioPoller_.getReadyWatchers.  The poller waits up to the clock's due time;
\* the kernel reports the watchers of `order` ready (in that order) after
\* d ms, or nothing when the due time has passed.  The d ms pass on the
\* steady clock and are added to now_.
LoopRunPolls(order, d) ==
    /\ loopPc = "sched"
    /\ SchedulerDrained
    /\ ~NoForegroundFibers
    /\ now + d <= MaxNow
    /\ order = <<>> => GetDueTime >= 0 /\ d >= GetDueTime
    /\ clock + d <= MaxNow
    /\ now' = now + d
    /\ clock' = clock + d
    /\ UNCHANGED <<poolVars, tcp>>
    /\ LET s == EmitWatchers(DispatchState, order)
       IN /\ fstate' = s.fstate
          /\ fgQueue' = s.fgQueue
          /\ bgQueue' = s.bgQueue
          /\ frame' = s.frame
          /\ hist' = s.hist
    /\ loopPc' = "timers"
    /\ UNCHANGED <<current, fgCount, ctx, kernelVars, watchers, timerHeap>>

\* ioClock_.removeExpiredTimers, then back to scheduler_.run().
LoopRunExpiresTimers ==
    /\ loopPc = "timers"
    /\ \E s \in RemoveExpiredTimersFrom(DispatchState) :
          /\ fstate' = s.fstate
          /\ fgQueue' = s.fgQueue
          /\ bgQueue' = s.bgQueue
          /\ frame' = s.frame
          /\ hist' = s.hist
          /\ timerHeap' = s.heap
    /\ loopPc' = "sched"
    /\ UNCHANGED <<current, fgCount, ctx, kernelVars, watchers, now, clock, poolVars, tcp>>

\* ------------------------------------------------------------------ thread pool

\* Mutants: the worker leaves the task it took in the pending list; the
\* worker removes the sentinel it observed.
PendingAfterTake_Keeps(q) == q
PendingAfterTake_RemovesSentinel(q) == Tail(q)

\* ThreadPool::worker, under the pending-list mutex: the head of the list is
\* removed unless it is the sentinel.
PendingAfterTake(q) == IF Head(q) = NoTask THEN q ELSE Tail(q)

\* ThreadPool::worker, top of the loop: with the pending-list mutex held,
\* wait until the list is not empty, then return if its head is the
\* sentinel, else take the head.
WorkerTakes(w) ==
    /\ worker[w].pc = "take"
    /\ pending # <<>>
    /\ worker' = [worker EXCEPT ![w] =
                      IF Head(pending) = NoTask
                      THEN [pc |-> "returned", task |-> NoTask]
                      ELSE [pc |-> "run", task |-> Head(pending)]]
    /\ pending' = PendingAfterTake(pending)
    /\ UNCHANGED <<loopVars, tcp, completed, task, eventfd, async>>

\* task->procedure_(), which returns or throws; an exception is stored in
\* the task.
WorkerRuns(w, throws) ==
    /\ worker[w].pc = "run"
    /\ task' = [task EXCEPT ![worker[w].task].runs = @ + 1,
                            ![worker[w].task].threw = throws]
    /\ worker' = [worker EXCEPT ![w].pc = "append"]
    /\ UNCHANGED <<loopVars, tcp, pending, completed, eventfd, async>>

\* completedTaskList_.appendNode(task) under the completed-list mutex.
WorkerAppends(w) ==
    /\ worker[w].pc = "append"
    /\ completed' = Append(completed, worker[w].task)
    /\ task' = [task EXCEPT ![worker[w].task].appended = @ + 1]
    /\ worker' = [worker EXCEPT ![w].pc = "store"]
    /\ UNCHANGED <<loopVars, tcp, pending, eventfd, async>>

\* task->state_.store(TaskState::Completed, release).
WorkerStores(w) ==
    /\ worker[w].pc = "store"
    /\ task' = [task EXCEPT ![worker[w].task].state = "Completed"]
    /\ worker' = [worker EXCEPT ![w].pc = "write"]
    /\ UNCHANGED <<loopVars, tcp, pending, completed, eventfd, async>>

\* Mutant: the worker adds 2 to the eventfd.
EventfdAfterWrite_Two(counter) ==
    [value |-> counter.value + 2, written |-> counter.written + 2]

\* write(eventFD_, &dummy, 8) with dummy = 1 adds 1 to the counter.
EventfdAfterWrite(counter) ==
    [value |-> counter.value + 1, written |-> counter.written + 1]

\* The write of the eventfd: it succeeds and the worker goes back to the
\* top of its loop, or it fails with EINTR and is repeated.
WorkerWrites(w, e) ==
    /\ worker[w].pc \in {"write", "rewrite"}
    /\ IF e = "EINTR"
       THEN /\ worker' = [worker EXCEPT ![w].pc = "rewrite"]
            /\ UNCHANGED <<eventfd, task>>
       ELSE /\ worker' = [worker EXCEPT ![w] = [pc |-> "take", task |-> NoTask]]
            /\ eventfd' = EventfdAfterWrite(eventfd)
            /\ task' = [task EXCEPT ![worker[w].task].notified = @ + 1]
    /\ UNCHANGED <<loopVars, tcp, pending, completed, async>>

\* A fiber submits task t through Async and suspends: taskCount_ grows,
\* ThreadPool::addTask appends t to the pending list and notifies a worker.
AsyncSubmits(t) ==
    /\ task[t].state = "Unused"
    /\ ~async.shutdown
    /\ task' = [task EXCEPT ![t].state = "Pending"]
    /\ pending' = Append(pending, t)
    /\ async' = [async EXCEPT !.taskCount = @ + 1, !.submitter[t] = "suspended"]
    /\ UNCHANGED <<loopVars, tcp, completed, worker, eventfd>>

\* The pool is shut down: the sentinel is appended to the pending list and
\* all workers are notified.
PoolShutsDown ==
    /\ ~async.shutdown
    /\ pending' = Append(pending, NoTask)
    /\ async' = [async EXCEPT !.shutdown = TRUE]
    /\ UNCHANGED <<loopVars, tcp, completed, task, worker, eventfd>>

\* Async::EventTrigger: the eventfd is readable, the trigger fiber is
\* resumed and reads the counter, which resets it.
TriggerReads ==
    /\ async.trigger = "parked"
    /\ eventfd.value > 0
    /\ eventfd' = [eventfd EXCEPT !.value = 0]
    /\ async' = [async EXCEPT !.trigger = "harvest"]
    /\ UNCHANGED <<loopVars, tcp, pending, completed, task, worker>>

\* Mutant: the trigger resumes nobody.
Harvested_None(list) == {}

\* ThreadPool::getCompletedTasks: all tasks of the completed list.
Harvested(list) == {list[i] : i \in 1..Len(list)}

\* Async::EventTrigger: with the completed-list mutex held the trigger takes
\* the completed tasks; it resumes the submitter of each, taskCount_ drops
\* by their number, and the trigger waits for the eventfd again.
TriggerHarvests ==
    /\ async.trigger = "harvest"
    /\ completed' = <<>>
    /\ async' = [async EXCEPT
                    !.trigger = "parked",
                    !.taskCount = @ - Cardinality(Harvested(completed)),
                    !.submitter = [t \in Tasks |->
                                      IF t \in Harvested(completed)
                                      THEN "resumed" ELSE @[t]],
                    !.resumes = [t \in Tasks |->
                                    IF t \in Harvested(completed)
                                    THEN @[t] + 1 ELSE @[t]]]
    /\ UNCHANGED <<loopVars, tcp, pending, task, worker, eventfd>>

\* ------------------------------------------------------------------ TCPSocket
\* The TCPSocket objects of the program.  An object is "unborn" before its
\* constructor runs, "alive" after it, "destroyed" after its destructor and
\* "failed" when its constructor threw.  closeCalls lists the arguments of
\* the calls of Loop::close (with whether a context existed for it),
\* obtained counts the descriptors Loop::socket returned, terminated is set
\* when an exception leaves a noexcept function (std::terminate).
Sockets == {"s1", "s2", "s3"}

TcpInit ==
    tcp = [obj |-> [s \in Sockets |-> [life |-> "unborn", fd |-> NoFD]],
           closeCalls |-> <<>>, obtained |-> 0, terminated |-> FALSE]

\* TCPSocket::isValid.
IsValid(s) == tcp.obj[s].fd >= 0

\* LOOP_CHECK_FD as Loop::close applies it to fd.
CloseChecksOut(fd) == fd \in FDs /\ ContextExists(fd)

\* TCPSocket::finalize on descriptor fd, ::close giving errno e: Loop::close
\* fails with EBADF when fd has no context, and otherwise destroys the
\* context and returns the result of ::close; finalize throws unless the
\* call succeeded or failed with EINTR.
FinalizeThrows(fd, e) == ~CloseChecksOut(fd) \/ e \notin {NoError, "EINTR"}

CtxAfterFinalize(fd) ==
    IF CloseChecksOut(fd) THEN DestroyIOContext(fd) ELSE ctx

KernelAfterFinalize(fd) ==
    IF CloseChecksOut(fd) THEN [kernel EXCEPT ![fd] = KernelClosed] ELSE kernel

CloseCallsAfterFinalize(fd) ==
    Append(tcp.closeCalls, <<fd, CloseChecksOut(fd)>>)

\* TCPSocket::move: what the source holds afterwards.
MovedFrom(fd) == NoFD

\* TCPSocket::TCPSocket(Loop *): initialize calls Loop::socket, which
\* returns a new registered descriptor (e = NoError) or fails with e, and
\* then the constructor throws.
TCPSocketConstructs(s, e) ==
    /\ ~tcp.terminated
    /\ tcp.obj[s].life = "unborn"
    /\ IF e = NoError
       THEN /\ FreeFDs # {}
            /\ ctx' = [ctx EXCEPT ![NewFD] = FileOptions(TRUE, SocketBlocking({}), -1, -1)]
            /\ kernel' = [kernel EXCEPT ![NewFD] =
                              KernelFile(TRUE, {"O_NONBLOCK"}, ZeroTime, ZeroTime)]
            /\ tcp' = [tcp EXCEPT !.obj[s] = [life |-> "alive", fd |-> NewFD],
                                  !.obtained = @ + 1]
       ELSE /\ tcp' = [tcp EXCEPT !.obj[s].life = "failed"]
            /\ UNCHANGED <<ctx, kernel>>
    /\ UNCHANGED <<loopPc, schedVars, watchers, timerHeap, now, frame, hist,
                   atRegister, clock, poolVars>>

\* TCPSocket::TCPSocket(TCPSocket &&other): other.move(this).
TCPSocketMoveConstructs(s, other) ==
    /\ ~tcp.terminated
    /\ s # other
    /\ tcp.obj[s].life = "unborn"
    /\ tcp.obj[other].life = "alive"
    /\ tcp' = [tcp EXCEPT !.obj[s] = [life |-> "alive", fd |-> tcp.obj[other].fd],
                          !.obj[other].fd = MovedFrom(@)]
    /\ UNCHANGED <<loopVars, poolVars>>

\* TCPSocket::operator=(TCPSocket &&other): nothing when &other == this;
\* otherwise finalize(), whatever fd_ is, then other.move(this).  The
\* operator is noexcept: a throw of finalize ends the program.
TCPSocketMoveAssigns(s, other, e) ==
    LET fd == tcp.obj[s].fd IN
    /\ ~tcp.terminated
    /\ tcp.obj[s].life = "alive"
    /\ tcp.obj[other].life = "alive"
    /\ IF s = other
       THEN UNCHANGED <<ctx, kernel, tcp>>
       ELSE /\ ctx' = CtxAfterFinalize(fd)
            /\ kernel' = KernelAfterFinalize(fd)
            /\ tcp' = IF FinalizeThrows(fd, e)
                      THEN [tcp EXCEPT !.closeCalls = CloseCallsAfterFinalize(fd),
                                       !.terminated = TRUE]
                      ELSE [tcp EXCEPT !.closeCalls = CloseCallsAfterFinalize(fd),
                                       !.obj[s].fd = tcp.obj[other].fd,
                                       !.obj[other].fd = MovedFrom(@)]
    /\ UNCHANGED <<loopPc, schedVars, watchers, timerHeap, now, frame, hist,
                   atRegister, clock, poolVars>>

\* TCPSocket::~TCPSocket: finalize() if isValid().  A destructor is
\* noexcept: a throw of finalize ends the program.
TCPSocketDestructs(s, e) ==
    LET fd == tcp.obj[s].fd IN
    /\ ~tcp.terminated
    /\ tcp.obj[s].life = "alive"
    /\ IF IsValid(s)
       THEN /\ ctx' = CtxAfterFinalize(fd)
            /\ kernel' = KernelAfterFinalize(fd)
            /\ tcp' = [tcp EXCEPT !.closeCalls = CloseCallsAfterFinalize(fd),
                                  !.terminated = FinalizeThrows(fd, e),
                                  !.obj[s].life = "destroyed"]
       ELSE /\ tcp' = [tcp EXCEPT !.obj[s].life = "destroyed"]
            /\ UNCHANGED <<ctx, kernel>>
    /\ UNCHANGED <<loopPc, schedVars, watchers, timerHeap, now, frame, hist,
                   atRegister, clock, poolVars>>

\* ------------------------------------------------------------------ specification

\* The loop is constructed, descriptors 3 (a socket) and 4 (a pipe end) are
\* registered, the three fibers are created, and Loop::run is entered.
Init ==
    /\ loopPc = "sched"
    /\ current = None
    /\ fgQueue = <<"f1", "f2">>
    /\ bgQueue = <<"b1">>
    /\ fstate = [f \in Fibers |-> "runnable"]
    /\ fgCount = Cardinality(FgFibers)
    /\ \E o \in InitialSocketOptions :
          ctx = [fd \in FDs |->
                    IF fd = 3 THEN FileOptions(TRUE, o[1], o[2], o[3])
                    ELSE IF fd = 4 THEN FileOptions(FALSE, TRUE, -1, -1)
                    ELSE NoContext]
    /\ watchers = {}
    /\ timerHeap = {}
    /\ now = 0
    /\ frame = [f \in Fibers |-> NoFrame]
    /\ hist = [f \in Fibers |-> NoHist]
    /\ kernel = [fd \in FDs |->
                    IF fd \in RegisteredAtStart
                    THEN KernelFile(fd = 3, {"O_NONBLOCK"}, ZeroTime, ZeroTime)
                    ELSE KernelClosed]
    /\ atRegister = [fd \in FDs |-> KernelClosed]
    /\ clock = 0
    /\ PoolInit
    /\ TcpInit

FiberStep(f) ==
    \/ \E op \in OpsOf(f) : \E fd \in FdsOf(f, op), flags \in FlagsOf(op) :
          Call(f, op, fd, flags)
    \/ \E n \in 0..BufSize : SyscallFileOk(f, n)
    \/ \E e \in {"EAGAIN", "EINTR", "EIO"} : SyscallFileErr(f, e)
    \/ SyscallAccept4Ok(f)
    \/ \E e \in {"EAGAIN", "EINTR", "EIO"} : SyscallAccept4Err(f, e)
    \/ \E e \in {NoError, "EINTR", "EINPROGRESS", "ECONNREFUSED"} : SyscallConnect(f, e)
    \/ \E e \in {NoError, "EINTR", "EIO"} : SyscallOpen(f, e)
    \/ \E e \in {NoError, "EINTR", "EIO"} : SyscallClose(f, e)
    \/ \E soError \in {NoError, "ECONNREFUSED"} : WaitForFileReturns(f, soError)
    \/ OperationDone(f)
    \/ FiberYields(f)
    \/ FiberTerminates(f)
    \/ \E g \in Fibers \ {f} : FiberResumesOther(f, g)

Next ==
    \/ SchedulerRunFiber
    \/ \E f \in Fibers : FiberStep(f)
    \/ LoopRunReturns
    \/ \E ready \in SUBSET watchers, d \in 0..MaxNow :
          \E order \in Orders(ready) : LoopRunPolls(order, d)
    \/ LoopRunExpiresTimers

Spec == Init /\ [][Next]_vars

\* The same loop with fibers that only read, yield, resume each other and
\* end, and the loop thread never stopping while it has a step to take:
\* the specification for what Loop::run eventually does.
FiberStepRun(f) ==
    \/ \E fd \in FdsOf(f, "read") : "read" \in OpsOf(f) /\ Call(f, "read", fd, {})
    \/ \E n \in 0..BufSize : SyscallFileOk(f, n)
    \/ \E e \in {"EAGAIN", "EINTR", "EIO"} : SyscallFileErr(f, e)
    \/ WaitForFileReturns(f, NoError)
    \/ OperationDone(f)
    \/ FiberYields(f)
    \/ FiberTerminates(f)
    \/ \E g \in Fibers \ {f} : FiberResumesOther(f, g)

NextRun ==
    \/ SchedulerRunFiber
    \/ \E f \in Fibers : FiberStepRun(f)
    \/ LoopRunReturns
    \/ \E ready \in SUBSET watchers, d \in 0..MaxNow :
          \E order \in Orders(ready) : LoopRunPolls(order, d)
    \/ LoopRunExpiresTimers

FairSpec == Init /\ [][NextRun]_vars /\ WF_vars(NextRun)

\* A loop whose only fiber, f1, creates, adopts, uses and closes
\* descriptors.  Descriptor 3 is a socket the program opened itself, blocking
\* or not; the loop knows no descriptor yet.  f1 also passes descriptor 5 to
\* every operation, whether the loop knows it at that moment or not.
ExternalSockets ==
    {KernelFile(TRUE, flags, ZeroTime, ZeroTime) : flags \in {{}, {"O_NONBLOCK"}}}

FdInit ==
    /\ loopPc = "sched"
    /\ current = None
    /\ fgQueue = <<"f1">>
    /\ bgQueue = <<>>
    /\ fstate = [f \in Fibers |-> IF f = "f1" THEN "runnable" ELSE "terminated"]
    /\ fgCount = 1
    /\ ctx = [fd \in FDs |-> NoContext]
    /\ watchers = {}
    /\ timerHeap = {}
    /\ now = 0
    /\ frame = [f \in Fibers |-> NoFrame]
    /\ hist = [f \in Fibers |-> NoHist]
    /\ \E file \in ExternalSockets :
          kernel = [fd \in FDs |-> IF fd = 3 THEN file ELSE KernelClosed]
    /\ atRegister = [fd \in FDs |-> KernelClosed]
    /\ clock = 0
    /\ PoolInit
    /\ TcpInit

\* The calls f1 makes: <<op, fd, flags, arg>>.
FdCalls ==
    ({"open"} \X {NoFD} \X (SUBSET {"O_NONBLOCK", "mode_O_NONBLOCK"}) \X {ZeroTime})
    \cup ({"socket"} \X {NoFD} \X (SUBSET {"SOCK_NONBLOCK"}) \X {ZeroTime})
    \cup ({"pipe2"} \X {NoFD} \X (SUBSET {"O_NONBLOCK"}) \X {ZeroTime})
    \cup ({"accept4"} \X {3} \X (SUBSET {"SOCK_NONBLOCK"}) \X {ZeroTime})
    \cup ({"registerFD", "unregisterFD"} \X {3} \X {{}} \X {ZeroTime})
    \cup ({"close"} \X FDs \X {{}} \X {ZeroTime})
    \cup ({"fcntl_setfl"} \X {3, 5} \X (SUBSET {"O_NONBLOCK"}) \X {ZeroTime})
    \cup ({"fcntl_getfl"} \X {5} \X {{}} \X {ZeroTime})
    \cup ({"setsockopt", "getsockopt"} \X {5} \X {{"SO_RCVTIMEO"}} \X {ZeroTime})
    \cup (WaitOps \X {5} \X {{}} \X {ZeroTime})
    \cup ({"poll"} \X {5} \X {{"POLLIN"}} \X {<<1, -1>>})

FdFiberStep(f) ==
    \/ \E c \in FdCalls : CallArg(f, c[1], c[2], c[3], c[4])
    \/ \E n \in 0..BufSize : SyscallFileOk(f, n)
    \/ \E e \in {"EAGAIN", "EIO"} : SyscallFileErr(f, e)
    \/ SyscallAccept4Ok(f)
    \/ \E e \in {"EAGAIN", "EIO"} : SyscallAccept4Err(f, e)
    \/ \E e \in {NoError, "EINPROGRESS", "ECONNREFUSED"} : SyscallConnect(f, e)
    \/ \E e \in {NoError, "EIO"} : SyscallOpen(f, e)
    \/ \E e \in {NoError, "EIO"} : SyscallClose(f, e)
    \/ \E e \in {NoError, "EIO"} : SyscallSocket(f, e)
    \/ \E e \in {NoError, "EIO"} : SyscallPipe2(f, e)
    \/ \E e \in {NoError, "EIO"} : SyscallFcntl(f, e)
    \/ Sockopt(f)
    \/ RegisterFD(f)
    \/ UnregisterFD(f)
    \/ PollEnters(f)
    \/ \E ready \in SUBSET {"In", "Err", "Hup"} : PollLeaves(f, ready)
    \/ WaitForFileReturns(f, NoError)
    \/ OperationDone(f)
    \/ FiberTerminates(f)

FdNext ==
    \/ SchedulerRunFiber
    \/ FdFiberStep("f1")
    \/ LoopRunReturns
    \/ \E ready \in SUBSET watchers : \E order \in Orders(ready) : LoopRunPolls(order, 0)
    \/ LoopRunExpiresTimers

FdSpec == FdInit /\ [][FdNext]_vars

\* The loop of FdSpec where, in addition, a creation or registerFD may throw.
ThrowNext ==
    \/ FdNext
    \/ CreationThrows("f1")
    \/ \E failing \in {1, 2} : Pipe2Throws("f1", failing)
    \/ RegisterFDThrows("f1")
    \/ ExceptionCaught("f1")

ThrowSpec == FdInit /\ [][ThrowNext]_vars

\* A program that constructs, moves and destroys TCPSocket objects on a loop
\* that knows no descriptor yet; ::close succeeds or fails with EINTR or EIO.
TcpSpecInit ==
    /\ loopPc = "sched"
    /\ current = None
    /\ fgQueue = <<>>
    /\ bgQueue = <<>>
    /\ fstate = [f \in Fibers |-> "terminated"]
    /\ fgCount = 0
    /\ ctx = [fd \in FDs |-> NoContext]
    /\ watchers = {}
    /\ timerHeap = {}
    /\ now = 0
    /\ frame = [f \in Fibers |-> NoFrame]
    /\ hist = [f \in Fibers |-> NoHist]
    /\ kernel = [fd \in FDs |-> KernelClosed]
    /\ atRegister = [fd \in FDs |-> KernelClosed]
    /\ clock = 0
    /\ PoolInit
    /\ TcpInit

TcpNext ==
    \/ \E s \in Sockets, e \in {NoError, "EMFILE"} : TCPSocketConstructs(s, e)
    \/ \E s, other \in Sockets : TCPSocketMoveConstructs(s, other)
    \/ \E s, other \in Sockets, e \in {NoError, "EINTR", "EIO"} :
          TCPSocketMoveAssigns(s, other, e)
    \/ \E s \in Sockets, e \in {NoError, "EINTR", "EIO"} : TCPSocketDestructs(s, e)

TcpSpec == TcpSpecInit /\ [][TcpNext]_vars

\* The loop of Init with f1 calling Loop::poll only: <<fd, events, <<nfds,
\* timeout>>>> are its arguments, on the registered socket 3 and on
\* descriptor 5, which the loop does not know.  f2 computes and may resume a
\* suspended fiber; b1 only yields and ends.
PollCalls ==
    ({3} \X {{"POLLIN"}, {"POLLOUT"}} \X {<<1, -1>>, <<1, 0>>, <<1, 2>>})
    \cup ({3} \X {{"POLLIN"}} \X {<<0, -1>>, <<0, 0>>, <<0, 2>>, <<2, 2>>})
    \cup ({5} \X {{"POLLIN"}} \X {<<1, 2>>})

PollNext ==
    \/ SchedulerRunFiber
    \/ \E c \in PollCalls : CallArg("f1", "poll", c[1], c[2], c[3])
    \/ PollEnters("f1")
    \/ \E ready \in SUBSET {"In", "Out", "Err", "Hup"} : PollLeaves("f1", ready)
    \/ OperationDone("f1")
    \/ \E f \in Fibers : FiberTerminates(f)
    \/ \E f \in {"f2", "b1"} : FiberYields(f)
    \/ FiberResumesOther("f2", "f1")
    \/ LoopRunReturns
    \/ \E ready \in SUBSET watchers, d \in 0..MaxNow :
          \E order \in Orders(ready) : LoopRunPolls(order, d)
    \/ LoopRunExpiresTimers

PollSpec == Init /\ [][PollNext]_vars

\* The loop of Init with fibers that only sleep: each calls Loop::poll with
\* nfds = 0, which is Loop::setDelay(timeout), with the timeouts of
\* Delays.  Time also passes while the loop is not inside the poller
\* (ClockTicks); IOClock::now_ does not see it.
Delays == {-1, 0, 1, 2}

ClockTicks ==
    /\ clock < MaxNow
    /\ clock' = clock + 1
    /\ UNCHANGED <<loopPc, schedVars, ctx, kernelVars, watchers, timerHeap, now,
                   frame, hist, poolVars, tcp>>

TimerNext ==
    \/ SchedulerRunFiber
    \/ \E f \in Fibers, d \in Delays : CallArg(f, "poll", 3, {"POLLIN"}, <<0, d>>)
    \/ \E f \in Fibers : PollEnters(f)
    \/ \E f \in Fibers : PollLeaves(f, {})
    \/ \E f \in Fibers : OperationDone(f)
    \/ \E f \in Fibers : FiberTerminates(f)
    \/ \E f \in Fibers : FiberResumesOther(f, "f1")
    \/ LoopRunReturns
    \/ \E d \in 0..MaxNow : LoopRunPolls(<<>>, d)
    \/ LoopRunExpiresTimers
    \/ ClockTicks

TimerSpec == Init /\ [][TimerNext]_vars

\* The thread pool with its workers, the fibers that submit the tasks and
\* the trigger fiber of Async; the loop itself stays as constructed.
AsyncInit ==
    /\ loopPc = "sched"
    /\ current = None
    /\ fgQueue = <<>>
    /\ bgQueue = <<>>
    /\ fstate = [f \in Fibers |-> "terminated"]
    /\ fgCount = 0
    /\ ctx = [fd \in FDs |-> NoContext]
    /\ watchers = {}
    /\ timerHeap = {}
    /\ now = 0
    /\ frame = [f \in Fibers |-> NoFrame]
    /\ hist = [f \in Fibers |-> NoHist]
    /\ kernel = [fd \in FDs |-> KernelClosed]
    /\ atRegister = [fd \in FDs |-> KernelClosed]
    /\ clock = 0
    /\ PoolInit
    /\ TcpInit

WorkerStep(w) ==
    \/ WorkerTakes(w)
    \/ \E throws \in BOOLEAN : WorkerRuns(w, throws)
    \/ WorkerAppends(w)
    \/ WorkerStores(w)
    \/ \E e \in {NoError, "EINTR"} : WorkerWrites(w, e)

\* A write of the eventfd that is not interrupted: what a worker does
\* eventually.
WorkerProgress(w) ==
    \/ WorkerTakes(w)
    \/ \E throws \in BOOLEAN : WorkerRuns(w, throws)
    \/ WorkerAppends(w)
    \/ WorkerStores(w)
    \/ WorkerWrites(w, NoError)

PoolNext ==
    \/ \E t \in Tasks : AsyncSubmits(t)
    \/ PoolShutsDown
    \/ \E w \in Workers : WorkerStep(w)
    \/ TriggerReads
    \/ TriggerHarvests

PoolSpec == AsyncInit /\ [][PoolNext]_vars

\* The same with threads that keep running and a loop that keeps
\* dispatching the trigger fiber.
FairPoolSpec ==
    /\ PoolSpec
    /\ \A w \in Workers : WF_vars(WorkerProgress(w))
    /\ WF_vars(TriggerReads)
    /\ WF_vars(TriggerHarvests)

\* A loop whose only fiber, f1, adopts descriptor 3 (a socket the program
\* opened and configured itself), reads and changes its flags and timeouts
\* through the loop, and gives it back.  The kernel keeps socket timeouts in
\* clock ticks, so the timeouts it holds are whole milliseconds; the
\* timevals f1 passes to setsockopt are arbitrary.
OptSockets ==
    {KernelFile(TRUE, flags, rcvtimeo, ZeroTime) :
        flags \in SUBSET SettableFlags, rcvtimeo \in {ZeroTime, <<0, 2000>>}}

Timevals == {ZeroTime, <<0, 500>>, <<0, 2000>>, <<0, 2500>>, <<1, 0>>}

OptInit ==
    /\ loopPc = "sched"
    /\ current = None
    /\ fgQueue = <<"f1">>
    /\ bgQueue = <<>>
    /\ fstate = [f \in Fibers |-> IF f = "f1" THEN "runnable" ELSE "terminated"]
    /\ fgCount = 1
    /\ ctx = [fd \in FDs |-> NoContext]
    /\ watchers = {}
    /\ timerHeap = {}
    /\ now = 0
    /\ frame = [f \in Fibers |-> NoFrame]
    /\ hist = [f \in Fibers |-> NoHist]
    /\ \E file \in OptSockets :
          kernel = [fd \in FDs |-> IF fd = 3 THEN file ELSE KernelClosed]
    /\ atRegister = [fd \in FDs |-> KernelClosed]
    /\ clock = 0
    /\ PoolInit
    /\ TcpInit

\* The calls f1 makes: <<op, fd, flags, arg>>.
OptCalls ==
    ({"registerFD", "unregisterFD", "fcntl_getfl"} \X {3} \X {{}} \X {ZeroTime})
    \cup ({"fcntl_setfl"} \X {3} \X (SUBSET SettableFlags) \X {ZeroTime})
    \cup ({"setsockopt"} \X {3} \X {{"SO_RCVTIMEO"}} \X Timevals)
    \cup ({"setsockopt"} \X {3} \X {{"SO_SNDTIMEO"}} \X {<<0, 2000>>})
    \cup ({"getsockopt"} \X {3} \X {{"SO_RCVTIMEO"}, {"SO_SNDTIMEO"}} \X {ZeroTime})

OptNext ==
    \/ SchedulerRunFiber
    \/ \E c \in OptCalls : CallArg("f1", c[1], c[2], c[3], c[4])
    \/ \E e \in {NoError, "EIO"} : SyscallFcntl("f1", e)
    \/ Sockopt("f1")
    \/ RegisterFD("f1")
    \/ UnregisterFD("f1")
    \/ OperationDone("f1")
    \/ FiberTerminates("f1")
    \/ LoopRunReturns

OptSpec == OptInit /\ [][OptNext]_vars

\* ------------------------------------------------------------------ properties

\* The fiber f waits (or has just been made runnable) inside a waitForFile
\* that armed both a watcher and a timer.
InTimedWait(f) == frame[f].pc = "wait" /\ hist[f].armed = "both"

\* f's operation is past a waitForFile that suspended it.
PastWait(f) == hist[f].waited /\ frame[f].pc \in {"syscall", "ret"}

\* f's operation has returned after its last wait timed out with no
\* readiness reported.
TimedOutReturn(f) ==
    /\ frame[f].pc = "ret"
    /\ hist[f].waited
    /\ frame[f].isTimedOut
    /\ ~hist[f].gotReady

\* The stored timeout of the side of the descriptor that op works on.
StoredTimeout(op, fd) ==
    IF op \in ReadSideOps THEN ctx[fd].readTimeout ELSE ctx[fd].writeTimeout

\* C1: for a suspension that armed a watcher and a timer, at most one of the
\* two callbacks signals the fiber: resumeFiber is called once for it, and
\* the fiber never has both "ready" and isTimedOut = true.
C1_ExactlyOneSignal ==
    \A f \in Fibers :
        InTimedWait(f) =>
            /\ hist[f].resumeCalls <= 1
            /\ ~(hist[f].gotReady /\ frame[f].isTimedOut)

\* C2: Loop::run returns exactly when scheduler.run() has drained the
\* runnable fibers and the foreground count is zero: the step that returns is
\* taken from that point with the count at zero and touches neither poller
\* nor clock, and from that point at zero nothing but the return happens.
C2_RunReturnsExactlyWhen ==
    [][/\ (loopPc # "returned" /\ loopPc' = "returned") =>
              /\ loopPc = "sched"
              /\ SchedulerDrained
              /\ fgCount = 0
              /\ UNCHANGED <<watchers, timerHeap, now, fstate, frame>>
       /\ (loopPc = "sched" /\ SchedulerDrained /\ fgCount = 0) =>
              loopPc' = "returned"
       /\ loopPc = "returned" => loopPc' = "returned"]_vars

\* Loop::run has returned while a background fiber is still suspended with
\* its watcher and its timer armed.
C2_Witness ==
    /\ loopPc = "returned"
    /\ \E b \in BgFibers :
          /\ fstate[b] = "suspended"
          /\ \E w \in watchers : w.fiber = b
          /\ \E t \in timerHeap : t.fiber = b

\* C4: whenever waitForFile has returned to the operation, its watcher is
\* not registered and its timer is not in the heap, and the timer left the
\* heap exactly once (never when none was armed).
C4_WatcherAndTimerRemoved ==
    \A f \in Fibers :
        PastWait(f) =>
            /\ ~\E w \in watchers : w.fiber = f
            /\ ~\E t \in timerHeap : t.fiber = f
            /\ hist[f].timerRemovals = (IF hist[f].armed = "both" THEN 1 ELSE 0)

\* waitForFile has returned after readiness with its timer still pending:
\* the scope guard took the timer out.
C4_Witness ==
    \E f \in Fibers :
        /\ PastWait(f)
        /\ hist[f].armed = "both"
        /\ hist[f].gotReady
        /\ ~frame[f].isTimedOut
        /\ hist[f].timerRemovals = 1

\* The operation of f calls waitForFile in this step.
CallsWaitForFile(f) ==
    /\ frame[f].pc = "syscall"
    /\ frame'[f].pc = "wait" \/ (~hist[f].called /\ hist'[f].called)

\* The fiber f runs on from its waitForFile in this step, and what
\* waitForFile returned as the operation shows it: after `false` the
\* operation fails at once (connect with EINPROGRESS), after `true` it goes
\* back to its system call (connect reports SO_ERROR).
LeavesWaitForFile(f) == frame[f].pc = "wait" /\ frame'[f].pc # "wait"

ReturnedTrue(f) ==
    IF frame[f].op = "connect"
    THEN frame'[f].pc = "ret" /\ ~(frame'[f].ret = -1 /\ frame'[f].errno = "EINPROGRESS")
    ELSE frame'[f].pc = "syscall"

\* C5: waitForFile by its timeout: < 0 arms the watcher only and suspends,
\* and returns true on resume; = 0 returns false at once, arming nothing and
\* not suspending; > 0 arms watcher and timer and suspends, and returns true
\* iff the timer callback did not fire before the fiber ran again.
C5_WaitForFileByTimeout ==
    [][\A f \in Fibers :
        LET t == frame'[f].wtimeout
            w == Watcher(f, frame[f].fd, IF frame[f].op \in ReadSideOps THEN "In" ELSE "Out")
        IN
        /\ (CallsWaitForFile(f) /\ t < 0) =>
              /\ frame'[f].pc = "wait" /\ fstate'[f] = "suspended"
              /\ watchers' = watchers \cup {w}
              /\ timerHeap' = timerHeap
        /\ (CallsWaitForFile(f) /\ t = 0) =>
              /\ frame'[f].pc = "ret"
              /\ frame'[f].ret = -1 \/ frame'[f].ret = frame[f].byteCount
              /\ UNCHANGED <<watchers, timerHeap, fstate, current, fgQueue, bgQueue>>
        /\ (CallsWaitForFile(f) /\ t > 0) =>
              /\ frame'[f].pc = "wait" /\ fstate'[f] = "suspended"
              /\ watchers' = watchers \cup {w}
              /\ timerHeap' = timerHeap \cup {Timer(f, now + t)}
        /\ LeavesWaitForFile(f) =>
              (ReturnedTrue(f) <=> (frame[f].wtimeout < 0 \/ ~frame[f].isTimedOut))
      ]_vars

\* A waitForFile with timeout > 0 has returned true: the operation is back
\* at its system call and the timer did not fire.
C5_Witness ==
    \E f \in Fibers :
        /\ frame[f].pc = "syscall"
        /\ hist[f].waited
        /\ frame[f].wtimeout > 0
        /\ ~frame[f].isTimedOut

\* C6, as claimed: a read/write/readv/writev/recv/send/recvfrom/sendto/accept4
\* whose wait timed out returns -1 with errno EAGAIN, its watcher removed,
\* and did not issue the system call again.
C6_TimeoutReturnsMinusOne ==
    \A f \in Fibers :
        (TimedOutReturn(f) /\ frame[f].op \in ReadFileOps \cup WriteFileOps \cup {"accept4"}) =>
            /\ frame[f].ret = -1
            /\ frame[f].errno = "EAGAIN"
            /\ ~\E w \in watchers : w.fiber = f
            /\ ~hist[f].retried

\* C6, amended: as C6, but recv/recvfrom with MSG_WAITALL that had collected
\* r > 0 bytes return r; every other case returns -1.
C6_TimeoutReturn ==
    \A f \in Fibers :
        (TimedOutReturn(f) /\ frame[f].op \in ReadFileOps \cup WriteFileOps \cup {"accept4"}) =>
            /\ frame[f].ret =
                  (IF frame[f].op \in RecvOps /\ "MSG_WAITALL" \in frame[f].flags
                      /\ frame[f].byteCount > 0
                   THEN frame[f].byteCount ELSE -1)
            /\ frame[f].errno = "EAGAIN"
            /\ ~\E w \in watchers : w.fiber = f
            /\ ~hist[f].retried

\* A write-side operation has returned -1 after its wait timed out.
C6_Witness ==
    \E f \in Fibers :
        /\ TimedOutReturn(f)
        /\ frame[f].op \in WriteFileOps
        /\ frame[f].ret = -1

C8_AppliedIsEffective ==
    \A f \in Fibers :
        (hist[f].called /\ frame[f].op \in WaitOps) =>
            frame[f].wtimeout =
                (IF ctx[frame[f].fd].blocking
                 THEN StoredTimeout(frame[f].op, frame[f].fd) ELSE 0)

\* C8, amended: recv, send, recvfrom and sendto called with MSG_DONTWAIT
\* apply 0 whatever the descriptor's options are.
C8_AppliedTimeout ==
    \A f \in Fibers :
        (hist[f].called /\ frame[f].op \in WaitOps) =>
            frame[f].wtimeout =
                (IF frame[f].op \in MsgOps /\ "MSG_DONTWAIT" \in frame[f].flags THEN 0
                 ELSE IF ctx[frame[f].fd].blocking
                 THEN StoredTimeout(frame[f].op, frame[f].fd) ELSE 0)

\* A write-side operation waits with the stored write timeout, which
\* differs from the stored read timeout.
C8_Witness ==
    \E f \in Fibers :
        /\ hist[f].called
        /\ frame[f].op \in WriteSideOps
        /\ frame[f].wtimeout = ctx[frame[f].fd].writeTimeout
        /\ frame[f].wtimeout > 0
        /\ ctx[frame[f].fd].readTimeout # ctx[frame[f].fd].writeTimeout

\* The system call of f's read/write-family operation fails with EAGAIN in
\* this step while the timeout that applies is 0.
EagainWithZeroTimeout(f) ==
    /\ frame[f].op \in ReadFileOps \cup WriteFileOps \cup {"accept4"}
    /\ CallsWaitForFile(f)
    /\ \/ frame[f].op \in MsgOps /\ "MSG_DONTWAIT" \in frame[f].flags
       \/ ~ctx[frame[f].fd].blocking
       \/ StoredTimeout(frame[f].op, frame[f].fd) = 0

\* C9, as claimed: on EAGAIN with effective timeout 0 the operation returns
\* -1 with errno EAGAIN, and scheduler, poller and clock are unchanged.
C9_EagainReturnsMinusOne ==
    [][\A f \in Fibers :
        EagainWithZeroTimeout(f) =>
            /\ frame'[f].pc = "ret"
            /\ frame'[f].ret = -1
            /\ frame'[f].errno = "EAGAIN"
            /\ UNCHANGED <<schedVars, watchers, timerHeap, now>>
      ]_vars

\* C9, amended: recv/recvfrom with MSG_WAITALL that had collected r > 0
\* bytes return r; every other case returns -1.
C9_EagainReturnsAtOnce ==
    [][\A f \in Fibers :
        EagainWithZeroTimeout(f) =>
            /\ frame'[f].pc = "ret"
            /\ frame'[f].ret =
                  (IF frame[f].op \in RecvOps /\ "MSG_WAITALL" \in frame[f].flags
                      /\ frame[f].byteCount > 0
                   THEN frame[f].byteCount ELSE -1)
            /\ frame'[f].errno = "EAGAIN"
            /\ UNCHANGED <<schedVars, watchers, timerHeap, now>>
      ]_vars

\* A read on a descriptor whose stored read timeout is 0 has returned -1 /
\* EAGAIN without having waited.
C9_Witness ==
    \E f \in Fibers :
        /\ frame[f].pc = "ret"
        /\ frame[f].op = "read"
        /\ hist[f].called /\ ~hist[f].waited
        /\ ctx[frame[f].fd].blocking
        /\ frame[f].ret = -1 /\ frame[f].errno = "EAGAIN"

\* C10: open, read, write, readv, writev, recv, send, recvfrom, sendto,
\* accept4 and connect never return -1 with errno EINTR.
C10_EINTRNotSurfaced ==
    \A f \in Fibers :
        (frame[f].pc = "ret" /\ frame[f].op \in WaitOps \cup {"open"} /\ frame[f].ret = -1) =>
            frame[f].errno # "EINTR"

\* An operation has returned -1 after one of its system calls failed with
\* EINTR.
C10_Witness ==
    \E f \in Fibers :
        /\ frame[f].pc = "ret"
        /\ frame[f].op \in WaitOps \cup {"open"}
        /\ hist[f].sawEINTR
        /\ frame[f].ret = -1

\* Every background fiber is suspended or has ended.
BackgroundParked == \A b \in BgFibers : fstate[b] \in {"suspended", "terminated"}

\* C3, as claimed: once the last foreground fiber has terminated, Loop::run
\* eventually returns, whatever the background fibers do.
C3_RunEventuallyReturns ==
    [](fgCount = 0 => <>(loopPc = "returned"))

\* C3, amended: once the last foreground fiber has terminated, Loop::run
\* polls no more, and it returns provided the background fibers eventually
\* stay suspended or ended.
C3_RunReturnsOnceBackgroundParks ==
    /\ [][fgCount = 0 => loopPc' # "timers"]_vars
    /\ <>[]BackgroundParked => [](fgCount = 0 => <>(loopPc = "returned"))

\* Loop::run has returned with a background fiber suspended in its read and
\* no foreground fiber left.
C3_Witness ==
    /\ loopPc = "returned"
    /\ fgCount = 0
    /\ \E b \in BgFibers : fstate[b] = "suspended" /\ frame[b].pc = "wait"

\* The step completes the operation fiber f is in.
Completes(f) == frame[f].pc \in {"syscall", "wait"} /\ frame'[f].pc = "ret"

\* The step is f's successful open, socket, accept4, pipe2 or registerFD and
\* fd is a descriptor it returns (or adopts).
Creates(f, fd) ==
    /\ Completes(f)
    /\ \/ frame[f].op \in {"open", "socket", "accept4"} /\ frame'[f].ret = fd
       \/ frame[f].op = "pipe2" /\ frame'[f].ret = 0 /\ ~kernel[fd].open /\ kernel'[fd].open
       \/ frame[f].op = "registerFD" /\ frame[f].fd = fd

\* The step is f's close or unregisterFD of fd.
Destroys(f, fd) ==
    /\ Completes(f)
    /\ frame[f].op \in {"close", "unregisterFD"}
    /\ frame[f].fd = fd

\* C11: a descriptor gets its context by a successful open, pipe2, socket,
\* accept4 or registerFD that returns (adopts) it and by nothing else, and
\* loses it by a close or unregisterFD of it and by nothing else; so the
\* descriptors with a context are those created and not closed since.
C11_ContextsAreCreatedMinusClosed ==
    [][\A fd \in FDs :
          /\ (~ctx[fd].exists /\ ctx'[fd].exists) <=> (\E f \in Fibers : Creates(f, fd))
          /\ (ctx[fd].exists /\ ~ctx'[fd].exists) <=> (\E f \in Fibers : Destroys(f, fd))]_vars

\* A close has just destroyed the context of a descriptor pipe2 or accept4
\* had created, while another descriptor keeps its context.
C11_Witness ==
    \E f \in Fibers :
        /\ frame[f].op = "close"
        /\ frame[f].pc = "ret"
        /\ frame[f].ret = 0
        /\ frame[f].fd = 5
        /\ ~ctx[5].exists
        /\ ctx[3].exists /\ ctx[4].exists

\* The step is f's call of an operation that takes a descriptor, on a
\* descriptor without context (poll is looked at where it tests the
\* descriptor, nfds being 1).
OpsTakingFd ==
    {"fcntl_getfl", "fcntl_setfl", "read", "write", "readv", "writev",
     "getsockopt", "setsockopt", "accept4", "connect", "recv", "send",
     "recvfrom", "sendto", "close"}

CallsWithoutContext(f) ==
    /\ frame[f].pc = "idle"
    /\ frame'[f].pc # "idle"
    /\ frame'[f].op \in OpsTakingFd
    /\ ~ContextExists(frame'[f].fd)

PollsWithoutContext(f) ==
    /\ frame[f].op = "poll"
    /\ frame[f].pc = "syscall"
    /\ frame'[f].pc # "syscall"
    /\ PollNfds(frame[f]) = 1
    /\ ~ContextExists(frame[f].fd)

\* The operation of f ends in this step with -1 and errno = EBADF, without a
\* system call and with the loop's and the kernel's state as they were.
FailsWithEBADF(f) ==
    /\ frame'[f].pc = "ret"
    /\ frame'[f].ret = -1
    /\ frame'[f].errno = "EBADF"
    /\ UNCHANGED <<loopPc, schedVars, ctx, kernelVars, watchers, timerHeap, now>>

\* C12, as claimed: every operation that takes a descriptor, poll with
\* nfds = 1 included, fails with EBADF on a descriptor without context and
\* changes nothing.
C12_EBADFWithoutContext ==
    [][\A f \in Fibers :
          (CallsWithoutContext(f) \/ PollsWithoutContext(f)) => FailsWithEBADF(f)]_vars

\* C12, amended: the operations that begin with LOOP_CHECK_FD fail with EBADF
\* on a descriptor without context, issue no system call and change nothing;
\* poll with nfds = 1 instead returns 1 with revents = POLLNVAL, errno
\* untouched, and changes nothing either.
C12_EBADFOrPOLLNVAL ==
    [][\A f \in Fibers :
          /\ CallsWithoutContext(f) => FailsWithEBADF(f)
          /\ PollsWithoutContext(f) =>
                /\ frame'[f].pc = "ret"
                /\ frame'[f].ret = 1
                /\ frame'[f].outFlags = {"POLLNVAL"}
                /\ frame'[f].errno = frame[f].errno
                /\ UNCHANGED <<loopPc, schedVars, ctx, kernelVars, watchers,
                               timerHeap, now>>]_vars

\* A setsockopt on a descriptor the loop does not know (any more) has failed
\* with EBADF while the loop knows other descriptors.
C12_Witness ==
    \E f \in Fibers :
        /\ frame[f].op = "setsockopt"
        /\ frame[f].pc = "ret"
        /\ frame[f].errno = "EBADF"
        /\ ~ctx[frame[f].fd].exists
        /\ ctx[4].exists

\* C13: every descriptor that has a context has O_NONBLOCK set in the kernel,
\* however it was created and whatever F_SETFL calls were made on it.
C13_KernelNonblocking ==
    \A fd \in FDs : ctx[fd].exists => "O_NONBLOCK" \in kernel[fd].flags

\* The step is f's fcntl or socket-option call op on fd running to its return.
CompletesOn(f, op, fd) ==
    /\ Completes(f)
    /\ frame[f].op = op
    /\ frame[f].fd = fd
    /\ ctx[fd].exists

\* C14: a successful F_SETFL with flag word f makes the virtual blocking flag
\* (f & O_NONBLOCK) == 0 and a failed one leaves it alone; a successful
\* F_GETFL returns O_NONBLOCK iff the virtual flag says non-blocking, and the
\* kernel's other bits; and nothing but a successful F_SETFL changes the
\* virtual flag of a registered descriptor, so F_GETFL after F_SETFL(f)
\* returns the O_NONBLOCK bit of f.
C14_FcntlRoundTrip ==
    [][\A fd \in FDs :
        /\ \A f \in Fibers :
            /\ CompletesOn(f, "fcntl_setfl", fd) =>
                   ctx'[fd].blocking = IF frame'[f].ret = 0
                                       THEN "O_NONBLOCK" \notin frame[f].flags
                                       ELSE ctx[fd].blocking
            /\ CompletesOn(f, "fcntl_getfl", fd) /\ frame'[f].ret # -1 =>
                   /\ "O_NONBLOCK" \in frame'[f].outFlags <=> ~ctx[fd].blocking
                   /\ frame'[f].outFlags \ {"O_NONBLOCK"}
                          = kernel[fd].flags \ {"O_NONBLOCK"}
        /\ ctx[fd].exists /\ ctx'[fd].exists
              /\ ctx'[fd].blocking # ctx[fd].blocking =>
               \E f \in Fibers :
                   CompletesOn(f, "fcntl_setfl", fd) /\ frame'[f].ret = 0
      ]_vars

\* A descriptor registered as non-blocking whose F_GETFL shows O_NONBLOCK
\* clear, as the caller's F_SETFL left it, and the kernel's O_APPEND.
C14_Witness ==
    \E f \in Fibers :
        /\ frame[f].op = "fcntl_getfl"
        /\ frame[f].pc = "ret"
        /\ frame[f].ret = 0
        /\ "O_NONBLOCK" \in atRegister[frame[f].fd].flags
        /\ "O_NONBLOCK" \in kernel[frame[f].fd].flags
        /\ frame[f].outFlags = {"O_APPEND"}

\* The timeout setsockopt or getsockopt on fd names with the option in flags.
OptionTimeout(options, flags) ==
    IF "SO_RCVTIMEO" \in flags THEN options.readTimeout ELSE options.writeTimeout

\* C15: setsockopt(SO_RCVTIMEO or SO_SNDTIMEO, T) on a registered socket
\* stores a timeout that getsockopt of the same option reads back as T, for
\* every timeval T, and stores the zero timeval as -1; getsockopt returns the
\* stored timeout as a timeval.
C15_TimeoutRoundTrip ==
    [][\A f \in Fibers, fd \in FDs :
        /\ CompletesOn(f, "setsockopt", fd) /\ ctx[fd].isSocket =>
               /\ frame'[f].ret = 0
               /\ TimeoutToTime(OptionTimeout(ctx'[fd], frame[f].flags)) = frame[f].arg
               /\ frame[f].arg = ZeroTime =>
                      OptionTimeout(ctx'[fd], frame[f].flags) = -1
        /\ CompletesOn(f, "getsockopt", fd) /\ ctx[fd].isSocket =>
               /\ frame'[f].ret = 0
               /\ frame'[f].outTime
                      = TimeoutToTime(OptionTimeout(ctx[fd], frame[f].flags))
      ]_vars

\* C16: when unregisterFD(fd) returns, the kernel's O_NONBLOCK flag of fd
\* and, for a socket, its SO_RCVTIMEO and SO_SNDTIMEO are what they were
\* immediately before registerFD(fd), whatever Loop operations were applied
\* to fd in between.
C16_UnregisterRestoresKernel ==
    [][\A f \in Fibers, fd \in FDs :
        CompletesOn(f, "unregisterFD", fd) =>
            /\ "O_NONBLOCK" \in kernel'[fd].flags
                   <=> "O_NONBLOCK" \in atRegister[fd].flags
            /\ ctx[fd].isSocket =>
                   /\ kernel'[fd].rcvtimeo = atRegister[fd].rcvtimeo
                   /\ kernel'[fd].sndtimeo = atRegister[fd].sndtimeo
      ]_vars

\* The step is f's accept4 on fd returning the accepted descriptor sub.
Accepts(f, fd, sub) ==
    /\ Completes(f)
    /\ frame[f].op = "accept4"
    /\ frame[f].fd = fd
    /\ frame'[f].ret = sub

\* C17: a successful accept4(fd, ..., flags) registers the accepted
\* descriptor as a socket whose virtual blocking flag is
\* (flags & SOCK_NONBLOCK) == 0 and whose timeouts are the listening
\* descriptor's stored timeouts at the return; the listening descriptor's
\* options are unchanged.
C17_Accept4Registers ==
    [][\A f \in Fibers, fd \in FDs, sub \in FDs :
        Accepts(f, fd, sub) =>
            /\ sub # fd
            /\ ~ctx[sub].exists
            /\ ctx'[sub] = FileOptions(TRUE, "SOCK_NONBLOCK" \notin frame[f].flags,
                                       ctx'[fd].readTimeout, ctx'[fd].writeTimeout)
            /\ ctx'[fd] = ctx[fd]
      ]_vars

\* accept4 with SOCK_NONBLOCK returned a descriptor registered non-blocking
\* with the listening socket's finite read timeout, after having waited.
C17_Witness ==
    \E f \in Fibers :
        LET fr == frame[f] IN
        /\ fr.op = "accept4"
        /\ fr.pc = "ret"
        /\ fr.ret \in FDs
        /\ hist[f].waited
        /\ "SOCK_NONBLOCK" \in fr.flags
        /\ ctx[fr.ret] = FileOptions(TRUE, FALSE, 2, ctx[fr.fd].writeTimeout)
        /\ ctx[fr.fd].blocking

\* The step is the return of f's recv / recvfrom with MSG_WAITALL, entered
\* on a registered descriptor.
WaitAllReturns(f) == Completes(f) /\ IsWaitAll(frame[f])

\* The operation's last readFile failed: its last system call failed (with
\* EAGAIN when the wait that followed timed out or was not allowed).
ReadFileFailed(f) == hist'[f].lastErr # NoError

\* C18 as stated: the MSG_WAITALL loop returns r with 0 <= r <= bufferSize;
\* r = bufferSize only when the buffer was filled; r < bufferSize only after
\* a zero-byte read or after an error or timeout that followed r > 0
\* collected bytes.
C18_WaitAllNeverNegative ==
    [][\A f \in Fibers :
        WaitAllReturns(f) =>
            LET r == frame'[f].ret
                collected == frame[f].byteCount
            IN /\ 0 <= r /\ r <= BufSize
               /\ r < BufSize =>
                      \/ ~ReadFileFailed(f) /\ r = collected
                      \/ ReadFileFailed(f) /\ r > 0 /\ r = collected
      ]_vars

\* C18, amended: the loop returns r with -1 <= r <= bufferSize.  It ends at
\* the first readFile that fills the buffer (r = bufferSize), reads zero
\* bytes (r = the bytes collected, possibly 0) or fails by error or timeout
\* (r = the bytes collected if any, else -1); until then the collected count
\* only grows and stays below bufferSize.
C18_WaitAllReturn ==
    [][\A f \in Fibers :
        LET r == frame'[f].ret
            collected == frame[f].byteCount
        IN /\ WaitAllReturns(f) =>
                  /\ r \in {-1} \cup (0..BufSize)
                  /\ collected < BufSize
                  /\ IF ReadFileFailed(f)
                     THEN r = IF collected = 0 THEN -1 ELSE collected
                     ELSE r = collected \/ (r = BufSize /\ r > collected)
           /\ IsWaitAll(frame[f]) /\ frame[f].pc \in {"syscall", "wait"}
                 /\ frame'[f].pc \in {"syscall", "wait"} =>
                  /\ frame'[f].byteCount >= collected
                  /\ frame'[f].byteCount < BufSize
                  /\ frame'[f].byteCount # collected => ~ReadFileFailed(f)
      ]_vars

\* A MSG_WAITALL receive that collected one byte, waited, timed out and
\* returned the one byte.
C18_Witness ==
    \E f \in Fibers :
        /\ IsWaitAll(frame[f])
        /\ frame[f].pc = "ret"
        /\ frame[f].byteCount = 1
        /\ frame[f].ret = 1
        /\ hist[f].waited
        /\ frame[f].isTimedOut
        /\ hist[f].lastErr = "EAGAIN"

\* f is inside recv, recvfrom, send or sendto called with MSG_DONTWAIT on a
\* registered descriptor.
InDontWaitCall(f) ==
    /\ frame[f].op \in MsgOps
    /\ "MSG_DONTWAIT" \in frame[f].flags
    /\ frame[f].pc = "syscall"

\* C19: a recv, recvfrom, send or sendto called with MSG_DONTWAIT never
\* suspends its fiber and never arms a watcher or a timer, whatever the
\* descriptor's virtual blocking flag and stored timeouts and with or
\* without MSG_WAITALL; when its system call fails with EAGAIN it returns
\* at that step.
C19_DontWaitNeverSuspends ==
    [][\A f \in Fibers :
        InDontWaitCall(f) =>
            /\ frame'[f].pc \in {"syscall", "ret"}
            /\ fstate'[f] # "suspended"
            /\ ~hist'[f].waited
            /\ \A w \in watchers' : w.fiber # f
            /\ \A t \in timerHeap' : t.fiber # f
            /\ hist'[f].lastErr = "EAGAIN" =>
                   /\ frame'[f].pc = "ret"
                   /\ frame'[f].ret = FailureValue(frame[f])
                   /\ frame'[f].errno = "EAGAIN"
      ]_vars

\* A MSG_DONTWAIT | MSG_WAITALL receive on a blocking socket with an
\* infinite read timeout that collected a byte, then got EAGAIN and
\* returned the byte without having waited.
C19_Witness ==
    \E f \in Fibers :
        LET fr == frame[f] IN
        /\ fr.op \in RecvOps
        /\ fr.flags = {"MSG_DONTWAIT", "MSG_WAITALL"}
        /\ fr.pc = "ret"
        /\ fr.ret = 1
        /\ hist[f].lastErr = "EAGAIN"
        /\ hist[f].called
        /\ ~hist[f].waited
        /\ ctx[fr.fd].blocking
        /\ ctx[fr.fd].readTimeout = -1

\* The step is the return of f's Loop::poll.
PollReturns(f) == Completes(f) /\ frame[f].op = "poll"

\* C20: poll with nfds = 0 arms no watcher, arms a timer as setDelay(timeout)
\* does and returns 0; with nfds > 1 it returns -1 with ENOSYS at once
\* without suspending the fiber or touching watchers or timers; with nfds = 1
\* on a registered descriptor it returns 1 with revents the POLL* bits of the
\* ready conditions when its watcher was reported ready, and 0 when the wait
\* ended by timeout.
C20_PollContract ==
    [][\A f \in Fibers :
        LET fr == frame[f]
            nfds == PollNfds(fr)
        IN PollReturns(f) =>
            /\ nfds = 0 =>
                   /\ frame'[f].ret = 0
                   /\ hist[f].armed = IF PollTimeout(fr) >= 0 THEN "timer" ELSE "none"
            /\ nfds > 1 =>
                   /\ frame'[f].ret = -1 /\ frame'[f].errno = "ENOSYS"
                   /\ fr.pc = "syscall"
                   /\ UNCHANGED <<schedVars, watchers, timerHeap>>
            /\ nfds = 1 /\ ctx[fr.fd].exists =>
                   /\ hist[f].gotReady =>
                          /\ frame'[f].ret = 1
                          /\ \A x \in PollReventMap :
                                 x[1] \in frame'[f].outFlags <=> x[2] \in frame'[f].ready
                   /\ ~hist[f].gotReady /\ fr.isTimedOut => frame'[f].ret = 0
      ]_vars

\* The step runs the watcher callback (the timer callback) of f's wait.
WatcherFires(f) == hist'[f].gotReady /\ ~hist[f].gotReady
TimerFires(f) == frame'[f].isTimedOut /\ ~frame[f].isTimedOut

\* C21: in a cycle of Loop::run the watcher callbacks all run in the poll
\* phase and the timer callbacks all run in the phase that follows it; no
\* fiber is running during either phase or between them, and the scheduler
\* picks a fiber only once the timer phase is over.
C21_WatchersThenTimersThenFibers ==
    [][/\ \A f \in Fibers :
           /\ WatcherFires(f) => loopPc = "sched" /\ loopPc' = "timers"
           /\ TimerFires(f) => loopPc = "timers" /\ loopPc' = "sched"
       /\ loopPc' = "timers" => loopPc = "sched" /\ current = None /\ current' = None
       /\ loopPc = "timers" => loopPc' = "sched" /\ current = None /\ current' = None
       /\ current' # None /\ current' # current =>
              loopPc = "sched" /\ loopPc' = "sched"
      ]_vars

\* A cycle has ended in which one fiber's watcher and another fiber's timer
\* fired; both fibers are runnable and neither has run yet.
C21_Witness ==
    /\ loopPc = "sched"
    /\ current = None
    /\ \E f, g \in Fibers :
           /\ f # g
           /\ frame[f].pc = "wait" /\ hist[f].gotReady /\ ~frame[f].isTimedOut
           /\ frame[g].pc = "wait" /\ frame[g].isTimedOut /\ ~hist[g].gotReady
           /\ fstate[f] = "runnable" /\ fstate[g] = "runnable"

\* C22: a successful Loop::open(path, flags, mode) registers the descriptor
\* it returns as a non-socket whose virtual blocking flag is
\* (flags & O_NONBLOCK) == 0, whatever mode is.
C22_OpenBlockingFromFlags ==
    [][\A f \in Fibers, fd \in FDs :
        Completes(f) /\ frame[f].op = "open" /\ frame'[f].ret = fd =>
            ctx'[fd] = FileOptions(FALSE, "O_NONBLOCK" \notin frame[f].flags, -1, -1)
      ]_vars

\* The step is the timer phase of a cycle: ioClock_.removeExpiredTimers.
TimerPhase == loopPc = "timers" /\ loopPc' = "sched"

\* What removeExpiredTimers does in a timer phase, given the time n it
\* compares expiries with: it removes exactly the timers that expire by n,
\* runs each one's callback once, resumes suspended fibers in the order of
\* their expiries, and leaves no timer in the heap that expires by n.
EmitsTimersExpiredBy(n) ==
    LET removed == timerHeap \ timerHeap'
        Pos(q, f) == CHOOSE i \in 1..Len(q) : q[i] = f
    IN /\ timerHeap' \subseteq timerHeap
       /\ removed = {t \in timerHeap : t.expiry <= n}
       /\ \A t \in timerHeap' : t.expiry > n
       /\ \A f \in Fibers :
              IF \E t \in removed : t.fiber = f
              THEN /\ frame'[f].isTimedOut
                   /\ hist'[f].resumeCalls = hist[f].resumeCalls + 1
                   /\ hist'[f].timerRemovals = hist[f].timerRemovals + 1
                   /\ fstate'[f] = "runnable"
              ELSE /\ frame'[f] = frame[f]
                   /\ hist'[f] = hist[f]
                   /\ fstate'[f] = fstate[f]
       /\ \A t, u \in removed :
              /\ fstate[t.fiber] = "suspended" /\ fstate[u.fiber] = "suspended"
              /\ t.fiber \in FgFibers /\ u.fiber \in FgFibers
              /\ Pos(fgQueue', t.fiber) < Pos(fgQueue', u.fiber)
              => t.expiry <= u.expiry

InSetDelay(f, pc) ==
    /\ frame[f].op = "poll"
    /\ PollNfds(frame[f]) = 0
    /\ frame[f].pc = pc

\* C24: setDelay(d) always suspends the fiber and arms no watcher; for
\* d < 0 it arms no timer and the fiber stays suspended until another
\* fiber resumes it; for d >= 0 it arms one timer with expiry now + d, which
\* the clock fires at most once and not before now has reached that
\* expiry, and a fiber that nobody else resumed returns after exactly one
\* resume, by the clock; when setDelay returns, its timer is not in the
\* heap.
C24_SetDelay ==
    [][\A f \in Fibers :
        LET d == PollTimeout(frame[f])
            timer == Timer(f, now + d)
            mine(heap) == {t \in heap : t.fiber = f}
        IN /\ InSetDelay(f, "syscall") /\ frame'[f] # frame[f] =>
                  /\ frame'[f].pc = "wait"
                  /\ fstate'[f] = "suspended"
                  /\ watchers' = watchers
                  /\ mine(timerHeap) = {}
                  /\ timerHeap' = IF d < 0 THEN timerHeap ELSE timerHeap \cup {timer}
           /\ InSetDelay(f, "wait") =>
                  /\ TimerFires(f) =>
                         /\ d >= 0
                         /\ \A t \in mine(timerHeap) : t.expiry <= now
                         /\ mine(timerHeap) # {} /\ mine(timerHeap') = {}
                         /\ hist'[f].timerRemovals = 1
                  /\ fstate[f] = "suspended" /\ fstate'[f] # "suspended" =>
                         \/ TimerFires(f)
                         \/ current \in Fibers \ {f}
                  /\ frame'[f].pc = "ret" =>
                         /\ frame'[f].ret = 0
                         /\ mine(timerHeap') = {}
                         /\ hist'[f].timerRemovals = IF d < 0 THEN 0 ELSE 1
                         /\ frame[f].isTimedOut => hist[f].resumeCalls = 1
      ]_vars

\* setDelay(2) has returned after the clock fired its timer, while a
\* setDelay(-1) of another fiber is still suspended, with no timer.
C24_Witness ==
    /\ InSetDelay("f2", "ret")
    /\ PollTimeout(frame["f2"]) = 2
    /\ frame["f2"].isTimedOut
    /\ hist["f2"].resumeCalls = 1
    /\ InSetDelay("f1", "wait")
    /\ PollTimeout(frame["f1"]) = -1
    /\ fstate["f1"] = "suspended"
    /\ timerHeap = {}

\* C25: a worker that gets a task gets the head of the pending list and
\* removes it, so tasks leave the list in FIFO order; no other worker holds
\* or has held that task; a task's procedure is run only by the worker that
\* holds it and at most once; no two workers hold the same task.
C25_EachTaskTakenOnce ==
    [][/\ \A w \in Workers :
           worker'[w].task # worker[w].task /\ worker'[w].task # NoTask =>
               /\ pending # <<>>
               /\ worker'[w].task = Head(pending)
               /\ pending' = Tail(pending)
               /\ task[Head(pending)].runs = 0
               /\ \A v \in Workers : worker[v].task # Head(pending)
       /\ \A t \in Tasks :
           /\ task'[t].runs <= 1
           /\ task'[t].runs # task[t].runs =>
                  \E w \in Workers : worker[w].task = t /\ worker[w].pc = "run"
       /\ \A w, v \in Workers :
           w # v /\ worker'[w].task = worker'[v].task => worker'[w].task = NoTask
      ]_vars

\* Both workers run a task at the same time, the second submitted task
\* having been taken after the first, and a third is pending.
C25_Witness ==
    \E w, v \in Workers, t, u \in Tasks :
        /\ w # v /\ t # u
        /\ worker[w] = [pc |-> "run", task |-> t]
        /\ worker[v] = [pc |-> "run", task |-> u]
        /\ Len(pending) = 1
        /\ Head(pending) \in Tasks \ {t, u}

\* C26: for every task a worker picks, whether its procedure returns or
\* throws, the worker runs the procedure, then appends the task to the
\* completed list, then stores Completed, then adds 1 to the eventfd, each
\* once; so the total added to the eventfd is the number of tasks written
\* for and at most the number of tasks appended; and every appended task
\* eventually gets its one eventfd increment.
C26_RunAppendStoreWrite ==
    /\ [](/\ \A t \in Tasks :
              /\ task[t].runs \in {0, 1}
              /\ task[t].appended \in {0, 1}
              /\ task[t].notified \in {0, 1}
              /\ task[t].threw => task[t].runs = 1
              /\ task[t].appended = 1 => task[t].runs = 1
              /\ task[t].state = "Completed" => task[t].appended = 1
              /\ task[t].notified = 1 => task[t].state = "Completed"
          /\ eventfd.written = Cardinality({t \in Tasks : task[t].notified = 1})
          /\ eventfd.written <= Cardinality({t \in Tasks : task[t].appended = 1}))
    /\ \A t \in Tasks : (task[t].appended = 1) ~> (task[t].notified = 1)

\* A task whose procedure threw got its eventfd increment after an
\* interrupted write, and its worker went on to run another task.
C26_Witness ==
    \E t \in Tasks, w \in Workers :
        /\ task[t].threw
        /\ task[t].notified = 1
        /\ worker[w].pc = "rewrite"
        /\ task[worker[w].task].threw
        /\ worker[w].task # t
        /\ eventfd.written = 1

\* All workers have returned from ThreadPool::worker.
AllWorkersReturned == \A w \in Workers : worker[w].pc = "returned"

\* C27: once the sentinel is in the pending list it stays there; a worker
\* returns only when the sentinel is at the head and leaves it there; after
\* the shutdown every worker eventually returns; and when all have
\* returned, every task that was submitted has been run and notified.
C27_ShutdownEndsEveryWorker ==
    /\ [](async.shutdown =>
              /\ pending # <<>>
              /\ pending[Len(pending)] = NoTask)
    /\ [][\A w \in Workers :
              worker'[w].pc = "returned" /\ worker[w].pc # "returned" =>
                  /\ Head(pending) = NoTask
                  /\ pending' = pending]_vars
    /\ [](AllWorkersReturned =>
              \A t \in Tasks : task[t].state # "Unused" =>
                  task[t].runs = 1 /\ task[t].notified = 1)
    /\ async.shutdown ~> AllWorkersReturned

\* The pool was shut down with three tasks submitted; all were run and all
\* workers have returned, the sentinel still being in the list.
C27_Witness ==
    /\ AllWorkersReturned
    /\ pending = <<NoTask>>
    /\ \A t \in Tasks : task[t].runs = 1 /\ task[t].notified = 1

\* C28: a submitter is resumed at most once and only after its task's
\* procedure has run; taskCount_ is the number of submitters still
\* suspended; when taskCount_ drops to 0 the trigger is parked on the
\* eventfd again; and every suspended submitter is eventually resumed.
C28_SubmittersResumedOnce ==
    /\ [](/\ \A t \in Tasks :
              /\ async.resumes[t] <= 1
              /\ async.submitter[t] = "resumed" <=> async.resumes[t] = 1
              /\ async.submitter[t] = "resumed" => task[t].runs = 1
              /\ async.submitter[t] = "none" <=> task[t].state = "Unused"
          /\ async.taskCount
                 = Cardinality({t \in Tasks : async.submitter[t] = "suspended"}))
    /\ [][async'.taskCount = 0 /\ async.taskCount # 0 =>
              async'.trigger = "parked"]_vars
    /\ \A t \in Tasks :
           (async.submitter[t] = "suspended") ~> (async.submitter[t] = "resumed")

\* All three submitters have been resumed and the trigger is parked again,
\* one of them before the worker of its task had written the eventfd.
C28_Witness ==
    /\ async.taskCount = 0
    /\ async.trigger = "parked"
    /\ \A t \in Tasks : async.submitter[t] = "resumed"
    /\ \E t \in Tasks : task[t].notified = 0

\* C29: whenever the loop thread takes the completed list, every task it
\* finds there already has state_ Completed: no task is in the completed
\* list while its state is still Pending.
C29_HarvestedTasksAreCompleted ==
    [][async.trigger = "harvest" /\ async'.trigger = "parked" =>
          \A i \in 1..Len(completed) : task[completed[i]].state = "Completed"]_vars

\* The operation of f throws in this step.
ThrowsNow(f) == frame[f].pc = "syscall" /\ frame'[f].pc = "threw"

\* The descriptors the scope guards of f's operation closed.
ClosedByGuards(f) ==
    {g[2] : g \in {hist'[f].unwound[i] : i \in 1..Len(hist'[f].unwound)}
                 \cap ({"close"} \X FDs)}

\* C30: when createIOContext throws inside open, socket, accept4 or pipe2,
\* the descriptors the system call created are closed and have no context
\* (pipe2 failing on the second end destroys the first end's context before
\* it closes both), and when registerFD throws the descriptor's kernel
\* blocking flag is what it was; every other descriptor and context is
\* untouched.
C30_FailedCreationLeavesNothing ==
    [][\A f \in Fibers : ThrowsNow(f) =>
          /\ kernel' = kernel
          /\ ctx' = ctx
          /\ \A fd \in ClosedByGuards(f) :
                 ~kernel[fd].open /\ ~kernel'[fd].open /\ ~ContextExists(fd)'
          /\ frame[f].op \in {"open", "socket", "accept4"} =>
                 hist'[f].unwound = <<<<"close", NewFD>>>>
          /\ frame[f].op = "pipe2" =>
                 \E rd, wr \in FreeFDs :
                    /\ rd # wr
                    /\ hist'[f].unwound \in
                          {<<<<"close", rd>>, <<"close", wr>>>>,
                           <<<<"destroyIOContext", rd>>, <<"close", rd>>,
                             <<"close", wr>>>>}
          /\ frame[f].op = "registerFD" =>
                 /\ ClosedByGuards(f) = {}
                 /\ kernel'[frame[f].fd].open
                 /\ WasBlocking(frame[f].fd)' = WasBlocking(frame[f].fd)]_vars

\* pipe2 threw at the second end while another descriptor has a context:
\* the first end's context was destroyed and both ends were closed.
C30_Witness ==
    /\ frame["f1"].pc = "threw"
    /\ frame["f1"].op = "pipe2"
    /\ Len(hist["f1"].unwound) = 3
    /\ \E fd \in FDs : ContextExists(fd)
    /\ \A fd \in FDs : ContextExists(fd) <=> kernel[fd].open

\* registerFD threw on a descriptor that was blocking.
C30_WitnessRegister ==
    /\ frame["f1"].pc = "threw"
    /\ frame["f1"].op = "registerFD"
    /\ hist["f1"].unwound # <<>>
    /\ WasBlocking(3)

\* The live TCPSocket objects that hold descriptor fd.
Owners(fd) == {s \in Sockets : tcp.obj[s].life = "alive" /\ tcp.obj[s].fd = fd}

\* C31: whatever the sequence of constructions, move-constructions,
\* move-assignments (into a moved-from socket too) and destructions, a
\* descriptor obtained from the loop has at most one owner, and exactly one
\* while it is open; Loop::close is called on it once, i.e. only while its
\* context exists; and Loop::close is never called with -1.
C31_EachFdOwnedAndClosedOnce ==
    /\ \A fd \in FDs : Cardinality(Owners(fd)) <= 1
    /\ ~tcp.terminated =>
           \A fd \in FDs : kernel[fd].open => Cardinality(Owners(fd)) = 1
    /\ \A i \in 1..Len(tcp.closeCalls) :
           /\ tcp.closeCalls[i][1] # NoFD
           /\ tcp.closeCalls[i][2]

====
